---- MODULE Spec2Model ----
(***************************************************************************)
(* Model of scripts/Aggregate_Meta_Stats.py: the five reducers over match   *)
(* records, the summary composer and the pipeline aggregate_match_data.     *)
(* And of scripts/Collect_Match_IDs.py: collect_match_ids, the loop over   *)
(* the tiers of the ladder that gathers match identifiers.                  *)
(*                                                                          *)
(* Representation.  A Python dict is a sequence of rows in insertion order  *)
(* (dicts iterate in insertion order, and the code depends on it in max()   *)
(* and in sorted()).  A float that the code rounds to d decimals is the     *)
(* integer number of 10^-d units: win_rate 33.33 is 3333.  round() is       *)
(* round-half-to-even on the exact quotient.  With the denominators the     *)
(* model reaches (below 100) a quotient lies on a rounding tie only when it *)
(* is a dyadic rational such as 15.625, which binary floating point holds   *)
(* exactly, so floating point and exact arithmetic round alike.             *)
(* A JSON key that is absent and a key holding the default behave alike in  *)
(* dict.get(key, default); the model stores the default.  'champion' is     *)
(* read with two defaults ('Unknown' and None), so its absence is the value *)
(* NoChampion; an absent 'team_id' is 0 (None and 0 are both falsy).        *)
(***************************************************************************)
EXTENDS Integers, Sequences, FiniteSets, TLC

VARIABLES
    bucket,          \* S3 objects under matches/<patch>/<queue>/, in listing order
    pc,              \* position of the running code
    invocation,      \* number of calls of aggregate_match_data started
    match_files,     \* aggregate_match_data: match_files
    matches,         \* aggregate_match_data: matches
    champion_data,   \* aggregate_champion_stats: champion_data
    champion_stats,  \* aggregate_champion_stats' result
    role_stats,      \* aggregate_role_meta's result
    item_builds,     \* aggregate_item_builds' result
    matchup_rows,    \* aggregate_matchups: matchup_data (the accumulator)
    matchup_data,    \* aggregate_matchups' result (significant_matchups)
    objective_rows,  \* aggregate_objective_correlations: objective_stats while folding
    objective_stats, \* aggregate_objective_correlations' result
    total_matches,   \* create_meta_summary: total_matches
    meta_summary,    \* create_meta_summary's result
    sink,            \* log of save_to_s3 calls
    now,             \* the wall clock read by datetime.now()
    result,          \* aggregate_match_data's return value
    idx,             \* iterations made by the loop that is running
    h_expected,      \* history: champion_data had faulty participants been skipped one by one
    h_observed,      \* history: games in which a pair met in a canonical role
    h_flagged,       \* history: (match, team) pairs carrying each objective flag
    h_matchups,      \* history: per pair, the observations of the matches folded
    ladders,         \* the league API: its answer for each tier, in the order of tiers
    cache,           \* the riot-match-cache table: the match ids it holds
    target_count,    \* collect_match_ids: target_count
    tier,            \* collect_match_ids: the number of tiers the outer loop has taken
    players,         \* collect_match_ids: players
    entry,           \* collect_match_ids: entry
    all_match_ids,   \* collect_match_ids: all_match_ids
    new_match_ids,   \* collect_match_ids: new_match_ids
    players_processed, \* collect_match_ids: players_processed
    h_fetched        \* history: the (tier, entry) pairs whose match list was requested

vars == <<bucket, pc, invocation, match_files, matches, champion_data,
          champion_stats, role_stats, item_builds, matchup_rows, matchup_data,
          objective_rows, objective_stats, total_matches, meta_summary, sink,
          now, result, idx, h_expected, h_observed, h_flagged,
          h_matchups, ladders, cache, target_count, tier, players, entry,
          all_match_ids, new_match_ids, players_processed, h_fetched>>

\* The variables of collect_match_ids
collectVars == <<ladders, cache, target_count, tier, players, entry,
                 all_match_ids, new_match_ids, players_processed, h_fetched>>

\* The variables of the aggregation, pc and idx apart
aggregateVars == <<bucket, invocation, match_files, matches, champion_data,
                   champion_stats, role_stats, item_builds, matchup_rows,
                   matchup_data, objective_rows, objective_stats, total_matches,
                   meta_summary, sink, now, result, h_expected, h_observed,
                   h_flagged, h_matchups>>

----------------------------------------------------------------------------
(* Bounds *)

\* Matches one call of a reducer folds
MaxMatches == 3

\* Entities of the mapping handed to create_meta_summary
MaxEntities == 11

\* Objects in the bucket
MaxFiles == 3

\* Runs of the script
MaxInvocations == 2

\* The latest reading of the clock
MaxClock == 2

\* Matches of one champion that one call of the entity reducer folds
MaxPositionMatches == 10

\* Tiers handed to collect_match_ids
MaxTiers == 2

----------------------------------------------------------------------------
(* collect_match_ids has not been called *)

\* The local variable entry before any statement has assigned it
Unbound == [puuid |-> 0, answer |-> "(unbound)", match_ids |-> <<>>]

CollectIdle ==
    /\ ladders = <<>>
    /\ cache = {}
    /\ target_count = 0
    /\ tier = 0
    /\ players = <<>>
    /\ entry = Unbound
    /\ all_match_ids = {}
    /\ new_match_ids = <<>>
    /\ players_processed = 0
    /\ h_fetched = <<>>

----------------------------------------------------------------------------
(* Arithmetic and sequence helpers *)

\* round(num / den) to the nearest integer, ties to even (Python 3 round).
Round(num, den) ==
    LET q == num \div den
        r == num % den
    IN  IF 2 * r < den THEN q
        ELSE IF 2 * r > den THEN q + 1
        ELSE IF q % 2 = 0 THEN q ELSE q + 1

RECURSIVE SumSeq(_)
SumSeq(s) == IF s = <<>> THEN 0 ELSE Head(s) + SumSeq(Tail(s))

\* round(sum(samples) / len(samples), 2) if samples else 0
MeanOf(samples) ==
    IF Len(samples) > 0 THEN Round(SumSeq(samples), Len(samples)) ELSE 0

\* Index of the row of a dict with the given key, 0 when the key is absent.
RECURSIVE KeyIndexFrom(_, _, _)
KeyIndexFrom(keys, k, i) ==
    IF i > Len(keys) THEN 0
    ELSE IF keys[i] = k THEN i
    ELSE KeyIndexFrom(keys, k, i + 1)

KeyIndex(keys, k) == KeyIndexFrom(keys, k, 1)

Abs(x) == IF x < 0 THEN 0 - x ELSE x

----------------------------------------------------------------------------
(* sorted() and slicing *)

\* s[:n]
Take(s, n) == SubSeq(s, 1, IF n < Len(s) THEN n ELSE Len(s))

\* InsertDesc putting x in front of the pairs with an equal key
RECURSIVE InsertDescBeforeEqual(_, _)
InsertDescBeforeEqual(s, x) ==
    IF s = <<>> THEN <<x>>
    ELSE IF Head(s)[1] > x[1] THEN <<Head(s)>> \o InsertDescBeforeEqual(Tail(s), x)
    ELSE <<x>> \o s

\* x put into a list of <<key, item>> pairs that is in descending key order,
\* behind every pair whose key is not smaller: equal keys keep their order.
RECURSIVE InsertDesc(_, _)
InsertDesc(s, x) ==
    IF s = <<>> THEN <<x>>
    ELSE IF Head(s)[1] >= x[1] THEN <<Head(s)>> \o InsertDesc(Tail(s), x)
    ELSE <<x>> \o s

RECURSIVE SortPairsDesc(_, _)
SortPairsDesc(done, rest) ==
    IF rest = <<>> THEN done
    ELSE SortPairsDesc(InsertDesc(done, Head(rest)), Tail(rest))

\* sorted(items, key=..., reverse=True): keys[i] is the key of items[i].
\* The sort is stable, and stays so under reverse=True.
SortedDesc(items, keys) ==
    LET sorted == SortPairsDesc(<<>>, [i \in 1..Len(items) |-> <<keys[i], items[i]>>])
    IN  [i \in 1..Len(sorted) |-> sorted[i][2]]

RECURSIVE InsertAsc(_, _)
InsertAsc(s, x) ==
    IF s = <<>> THEN <<x>>
    ELSE IF Head(s) <= x THEN <<Head(s)>> \o InsertAsc(Tail(s), x)
    ELSE <<x>> \o s

\* sorted(items) on a list of numbers
RECURSIVE SortedAsc(_)
SortedAsc(s) ==
    IF s = <<>> THEN <<>> ELSE InsertAsc(SortedAsc(Tail(s)), Head(s))

----------------------------------------------------------------------------
(* Records *)

\* A participant of a match.  fault says how the JSON value is malformed:
\*   "null_record"  the list entry is null, so participant.get raises;
\*   "null_kills"   'kills' is null, so  stats['kills'] += None  raises.
Participant(champion, win, team_id, position, fault) ==
    [champion |-> champion, win |-> win, team_id |-> team_id,
     position |-> position, individual_position |-> "",
     kills |-> 3, deaths |-> 1, assists |-> 4,
     damage_dealt_champions |-> 500, total_cs |-> 150,
     gold_earned |-> 1000, vision_score |-> 20,
     cs_per_min |-> 700, gold_per_min |-> 4000, vision_per_min |-> 80,
     damage_per_min |-> 2000, kda |-> 700,
     items |-> <<>>, fault |-> fault]

\* participant['champion'] when the key is absent
NoChampion == "(absent)"

\* participant.get('champion', 'Unknown')
ChampionOrUnknown(p) == IF p.champion = NoChampion THEN "Unknown" ELSE p.champion

\* the truth value of participant.get('champion')
HasChampion(p) == p.champion # NoChampion /\ p.champion # ""

NoTeam == [present |-> FALSE, win |-> FALSE, objectives |-> {}]

NoTeamStats == [blue |-> NoTeam, red |-> NoTeam]

\* A match record.  has_participants / has_team_stats: the key is in the dict.
Match(has_participants, participants, has_team_stats, team_stats) ==
    [has_participants |-> has_participants, participants |-> participants,
     has_team_stats |-> has_team_stats, team_stats |-> team_stats]

\* participant.get('position', '') or participant.get('individual_position', '')
PositionOf(p) ==
    IF p.position # "" THEN p.position ELSE p.individual_position

\* The participant lists over S with at most two participants
Lineups(S) == {<<>>} \cup {<<p>> : p \in S} \cup {<<p, q>> : p, q \in S}

----------------------------------------------------------------------------
(* aggregate_champion_stats *)

\* The defaultdict's factory: the row a first access to champion_data[c] creates.
NewChampionRow(c) ==
    [champion |-> c, games |-> 0, wins |-> 0, kills |-> 0, deaths |-> 0,
     assists |-> 0, total_damage |-> 0, total_cs |-> 0, total_gold |-> 0,
     total_vision_score |-> 0, positions |-> <<>>,
     cs_per_min_samples |-> <<>>, gold_per_min_samples |-> <<>>,
     vision_per_min_samples |-> <<>>, damage_per_min_samples |-> <<>>,
     kda_samples |-> <<>>]

ChampionKeys(data) == [i \in 1..Len(data) |-> data[i].champion]

\* stats['positions'][position] += 1  on a defaultdict(int)
BumpCount(counts, k) ==
    LET i == KeyIndex([j \in 1..Len(counts) |-> counts[j].key], k)
    IN  IF i = 0 THEN Append(counts, [key |-> k, count |-> 1])
        ELSE [counts EXCEPT ![i].count = @ + 1]

\* CountGame with the games increment moved below the kills line: a participant
\* whose kills raise has its win counted and its game not.
CountGameLate(data, c, p) ==
    LET d1 == IF KeyIndex(ChampionKeys(data), c) = 0
              THEN Append(data, NewChampionRow(c)) ELSE data
        i  == KeyIndex(ChampionKeys(d1), c)
    IN  [d1 EXCEPT ![i].games = @ + (IF p.fault = "null_kills" THEN 0 ELSE 1),
                   ![i].wins = @ + (IF p.win THEN 1 ELSE 0)]

\* Lines 83-84: the row is created on first access, then games and wins move.
CountGame(data, c, p) ==
    LET d1 == IF KeyIndex(ChampionKeys(data), c) = 0
              THEN Append(data, NewChampionRow(c)) ELSE data
        i  == KeyIndex(ChampionKeys(d1), c)
    IN  [d1 EXCEPT ![i].games = @ + 1,
                   ![i].wins = @ + (IF p.win THEN 1 ELSE 0)]

\* Lines 85-103: the summed counters, the samples and the position.
CountStats(data, c, p) ==
    LET i == KeyIndex(ChampionKeys(data), c)
    IN  [data EXCEPT
           ![i].kills = @ + p.kills,
           ![i].deaths = @ + p.deaths,
           ![i].assists = @ + p.assists,
           ![i].total_damage = @ + p.damage_dealt_champions,
           ![i].total_cs = @ + p.total_cs,
           ![i].total_gold = @ + p.gold_earned,
           ![i].total_vision_score = @ + p.vision_score,
           ![i].cs_per_min_samples = Append(@, p.cs_per_min),
           ![i].gold_per_min_samples = Append(@, p.gold_per_min),
           ![i].vision_per_min_samples = Append(@, p.vision_per_min),
           ![i].damage_per_min_samples = Append(@, p.damage_per_min),
           ![i].kda_samples = Append(@, p.kda),
           ![i].positions = IF PositionOf(p) # "" THEN BumpCount(@, PositionOf(p))
                            ELSE @]

\* One iteration of the participant loop (lines 77-103): the accumulator after
\* it, and whether it raised.
ChampionParticipant(data, p) ==
    IF p.fault = "null_record" THEN [data |-> data, raised |-> TRUE]
    ELSE IF ChampionOrUnknown(p) = "Unknown" THEN [data |-> data, raised |-> FALSE]
    ELSE IF p.fault = "null_kills"
         THEN [data |-> CountGame(data, p.champion, p), raised |-> TRUE]
    ELSE [data |-> CountStats(CountGame(data, p.champion, p), p.champion, p),
          raised |-> FALSE]

\* The participant loop inside the try block: the except clause ends the
\* match at the first participant that raises.
RECURSIVE ChampionParticipants(_, _)
ChampionParticipants(data, ps) ==
    IF ps = <<>> THEN data
    ELSE LET r == ChampionParticipant(data, Head(ps))
         IN  IF r.raised THEN r.data
             ELSE ChampionParticipants(r.data, Tail(ps))

\* The body of  for match in matches  (lines 72-106).
ChampionMatch(data, m) ==
    IF ~m.has_participants THEN data
    ELSE ChampionParticipants(data, m.participants)

\* max(positions, key=positions.get): the first key with the greatest count.
RECURSIVE FirstMax(_, _, _)
FirstMax(counts, i, best) ==
    IF i > Len(counts) THEN counts[best].key
    ELSE FirstMax(counts, i + 1,
                  IF counts[i].count > counts[best].count THEN i ELSE best)

PrimaryPosition(positions) ==
    IF positions # <<>> THEN FirstMax(positions, 1, 1) ELSE "UNKNOWN"

\* PositionFlexibility with the comparison  count / games >= 0.1
PositionFlexibilityAtLeast(positions, games) ==
    Cardinality({i \in 1..Len(positions) : positions[i].count * 10 >= games})

\* len([p for p, count in positions.items() if count / games > 0.1])
PositionFlexibility(positions, games) ==
    Cardinality({i \in 1..Len(positions) : positions[i].count * 10 > games})

\* Lines 115-145: the output row of one champion, pick_rate still 0.
ChampionRow(d) ==
    [champion |-> d.champion,
     games_played |-> d.games,
     wins |-> d.wins,
     win_rate |-> Round(d.wins * 10000, d.games),
     pick_rate |-> 0,
     avg_kills |-> Round(d.kills * 100, d.games),
     avg_deaths |-> Round(d.deaths * 100, d.games),
     avg_assists |-> Round(d.assists * 100, d.games),
     avg_kda |-> MeanOf(d.kda_samples),
     avg_damage |-> Round(d.total_damage, d.games),
     avg_damage_per_min |-> MeanOf(d.damage_per_min_samples),
     avg_cs |-> Round(d.total_cs * 10, d.games),
     avg_cs_per_min |-> MeanOf(d.cs_per_min_samples),
     avg_gold_earned |-> Round(d.total_gold, d.games),
     avg_gold_per_min |-> MeanOf(d.gold_per_min_samples),
     gold_efficiency |-> IF d.total_gold > 0
                         THEN Round(d.total_damage * 100000, d.total_gold) ELSE 0,
     avg_vision_score |-> Round(d.total_vision_score * 10, d.games),
     avg_vision_per_min |-> MeanOf(d.vision_per_min_samples),
     primary_position |-> PrimaryPosition(d.positions),
     position_flexibility |-> PositionFlexibility(d.positions, d.games)]

\* Lines 109-145: rows of the champions with at least one game.
RECURSIVE ChampionRows(_)
ChampionRows(data) ==
    IF data = <<>> THEN <<>>
    ELSE IF Head(data).games = 0 THEN ChampionRows(Tail(data))
    ELSE <<ChampionRow(Head(data))>> \o ChampionRows(Tail(data))

\* total_picks = sum(stats['games_played'] for stats in aggregated_stats.values())
TotalPicks(stats) == SumSeq([i \in 1..Len(stats) |-> stats[i].games_played])

\* PickRate as a fraction, the factor 100 forgotten
PickRateFraction(games_played, total_picks) == Round(games_played * 100, total_picks)

\* round((stats['games_played'] / total_picks) * 100, 2)
PickRate(games_played, total_picks) == Round(games_played * 10000, total_picks)

\* Lines 147-151
WithPickRates(stats) ==
    IF TotalPicks(stats) > 0
    THEN [i \in 1..Len(stats) |->
            [stats[i] EXCEPT !.pick_rate = PickRate(stats[i].games_played,
                                                    TotalPicks(stats))]]
    ELSE stats

\* Lines 108-153
ChampionFinal(data) == WithPickRates(ChampionRows(data))

RECURSIVE FoldChampion(_, _)
FoldChampion(data, ms) ==
    IF ms = <<>> THEN data
    ELSE FoldChampion(ChampionMatch(data, Head(ms)), Tail(ms))

\* champion_data kept at module level: a call starts from what the call
\* before it left.
StaleChampionData == champion_data

\* champion_data as the function creates it (lines 54-70): empty.
FreshChampionData == <<>>

aggregate_champion_stats(ms) == ChampionFinal(FoldChampion(FreshChampionData, ms))

----------------------------------------------------------------------------
(* aggregate_role_meta *)

\* Line 204: the length of a role's top_champions list
TopChampionsPerRole == 10

\* Lines 157-167: the defaultdict's factory
NewRoleRow(position) ==
    [position |-> position, games |-> 0, wins |-> 0, total_gold |-> 0,
     total_vision |-> 0, total_damage |-> 0, total_cs |-> 0, champions |-> <<>>,
     gold_per_min_samples |-> <<>>, vision_per_min_samples |-> <<>>]

\* Lines 179-192
CountRole(data, position, p) ==
    LET d1 == IF KeyIndex([j \in 1..Len(data) |-> data[j].position], position) = 0
              THEN Append(data, NewRoleRow(position)) ELSE data
        i  == KeyIndex([j \in 1..Len(d1) |-> d1[j].position], position)
    IN  [d1 EXCEPT
           ![i].games = @ + 1,
           ![i].wins = @ + (IF p.win THEN 1 ELSE 0),
           ![i].total_gold = @ + p.gold_earned,
           ![i].total_vision = @ + p.vision_score,
           ![i].total_damage = @ + p.damage_dealt_champions,
           ![i].total_cs = @ + p.total_cs,
           ![i].gold_per_min_samples = Append(@, p.gold_per_min),
           ![i].vision_per_min_samples = Append(@, p.vision_per_min),
           ![i].champions = IF ChampionOrUnknown(p) # "Unknown"
                            THEN BumpCount(@, p.champion) ELSE @]

\* Lines 174-192 inside the try block of lines 170-195
RECURSIVE RoleParticipants(_, _)
RoleParticipants(data, ps) ==
    IF ps = <<>> THEN data
    ELSE LET p == Head(ps)
         IN  IF p.fault = "null_record" THEN data
             ELSE IF PositionOf(p) = "" \/ PositionOf(p) = "Invalid"
                  THEN RoleParticipants(data, Tail(ps))
             ELSE RoleParticipants(CountRole(data, PositionOf(p), p), Tail(ps))

\* The body of  for match in matches  (lines 169-195)
RoleMatch(data, m) ==
    IF ~m.has_participants THEN data ELSE RoleParticipants(data, m.participants)

\* Lines 204 and 215-222
TopChampions(champions, games) ==
    LET top == Take(SortedDesc(champions, [j \in 1..Len(champions) |-> champions[j].count]),
                    TopChampionsPerRole)
    IN  [j \in 1..Len(top) |->
            [champion |-> top[j].key, games |-> top[j].count,
             pick_rate_in_role |-> Round(top[j].count * 10000, games)]]

\* Lines 206-223
RoleRow(d) ==
    [position |-> d.position,
     games_played |-> d.games,
     win_rate |-> Round(d.wins * 10000, d.games),
     avg_gold |-> Round(d.total_gold, d.games),
     avg_gold_per_min |-> MeanOf(d.gold_per_min_samples),
     avg_vision_score |-> Round(d.total_vision * 10, d.games),
     avg_vision_per_min |-> MeanOf(d.vision_per_min_samples),
     avg_damage |-> Round(d.total_damage, d.games),
     avg_cs |-> Round(d.total_cs * 10, d.games),
     top_champions |-> TopChampions(d.champions, d.games)]

\* Lines 197-225
RECURSIVE RoleRows(_)
RoleRows(data) ==
    IF data = <<>> THEN <<>>
    ELSE IF Head(data).games = 0 THEN RoleRows(Tail(data))
    ELSE <<RoleRow(Head(data))>> \o RoleRows(Tail(data))

RECURSIVE FoldRoles(_, _)
FoldRoles(data, ms) ==
    IF ms = <<>> THEN data ELSE FoldRoles(RoleMatch(data, Head(ms)), Tail(ms))

aggregate_role_meta(ms) == RoleRows(FoldRoles(<<>>, ms))

----------------------------------------------------------------------------
(* aggregate_item_builds *)

\* Line 257: the number of builds reported per champion
TopBuildsPerChampion == 5

\* Line 245: champion_items[champion][item_build] += 1
CountBuild(data, champion, build) ==
    LET d1 == IF KeyIndex([j \in 1..Len(data) |-> data[j].champion], champion) = 0
              THEN Append(data, [champion |-> champion, builds |-> <<>>]) ELSE data
        i  == KeyIndex([j \in 1..Len(d1) |-> d1[j].champion], champion)
    IN  [d1 EXCEPT ![i].builds = BumpCount(@, build)]

\* Lines 236-245 inside the try block of lines 232-248
RECURSIVE ItemParticipants(_, _)
ItemParticipants(data, ps) ==
    IF ps = <<>> THEN data
    ELSE LET p == Head(ps)
         IN  IF p.fault = "null_record" THEN data
             ELSE IF ~HasChampion(p) \/ p.items = <<>>
                  THEN ItemParticipants(data, Tail(ps))
             ELSE ItemParticipants(CountBuild(data, p.champion, SortedAsc(p.items)),
                                   Tail(ps))

\* The body of  for match in matches  (lines 231-248)
ItemMatch(data, m) ==
    IF ~m.has_participants THEN data ELSE ItemParticipants(data, m.participants)

\* Lines 253-269
ItemRow(d) ==
    LET total_games == SumSeq([j \in 1..Len(d.builds) |-> d.builds[j].count])
        top == Take(SortedDesc(d.builds, [j \in 1..Len(d.builds) |-> d.builds[j].count]),
                    TopBuildsPerChampion)
    IN  [champion |-> d.champion,
         total_games |-> total_games,
         top_builds |-> [j \in 1..Len(top) |->
                           [items |-> top[j].key, games |-> top[j].count,
                            pick_rate |-> Round(top[j].count * 10000, total_games)]]]

\* Lines 250-271.  A champion's row exists only once a build of it was
\* counted, so its total_games is never 0.
ItemRows(data) == [i \in 1..Len(data) |-> ItemRow(data[i])]

RECURSIVE FoldItems(_, _)
FoldItems(data, ms) ==
    IF ms = <<>> THEN data ELSE FoldItems(ItemMatch(data, Head(ms)), Tail(ms))

aggregate_item_builds(ms) == ItemRows(FoldItems(<<>>, ms))

----------------------------------------------------------------------------
(* aggregate_matchups *)

\* Line 299
CanonicalPositions == <<"TOP", "JUNGLE", "MIDDLE", "BOTTOM", "UTILITY">>

\* Line 283: the keys of team_positions
ValidTeams == {100, 200}

\* Line 321: the least number of games of a matchup that is reported
MinMatchupGames == 3

\* team_positions[team][position] = {...}: the slot is created or overwritten.
SetSlot(slots, position, champion, win) ==
    LET i == KeyIndex([j \in 1..Len(slots) |-> slots[j].position], position)
        e == [position |-> position, champion |-> champion, win |-> win]
    IN  IF i = 0 THEN Append(slots, e) ELSE [slots EXCEPT ![i] = e]

\* Lines 283-296: the partition of a match's participants by team and
\* position.  raised: a participant was null (p.get raises) or its team_id is
\* no key of team_positions (KeyError).
RECURSIVE TeamPositions(_, _)
TeamPositions(tp, ps) ==
    IF ps = <<>> THEN tp
    ELSE LET p == Head(ps)
         IN  IF p.fault = "null_record" THEN [tp EXCEPT !.raised = TRUE]
             ELSE IF \/ p.team_id = 0
                     \/ PositionOf(p) = ""
                     \/ PositionOf(p) = "Invalid"
                     \/ ~HasChampion(p)
                  THEN TeamPositions(tp, Tail(ps))
             ELSE IF p.team_id \notin ValidTeams THEN [tp EXCEPT !.raised = TRUE]
             ELSE IF p.team_id = 100
                  THEN TeamPositions(
                         [tp EXCEPT !.t100 = SetSlot(@, PositionOf(p), p.champion, p.win)],
                         Tail(ps))
             ELSE TeamPositions(
                    [tp EXCEPT !.t200 = SetSlot(@, PositionOf(p), p.champion, p.win)],
                    Tail(ps))

\* Line 283
NoSlots == [t100 |-> <<>>, t200 |-> <<>>, raised |-> FALSE]

SlotIndex(slots, position) ==
    KeyIndex([j \in 1..Len(slots) |-> slots[j].position], position)

\* matchup_data[a][b][field] += by  on the nested defaultdict
BumpRow(rows, a, b, games, wins) ==
    LET r1 == IF KeyIndex([j \in 1..Len(rows) |-> rows[j].champion], a) = 0
              THEN Append(rows, [champion |-> a, opponents |-> <<>>]) ELSE rows
        i  == KeyIndex([j \in 1..Len(r1) |-> r1[j].champion], a)
        os == r1[i].opponents
        o1 == IF KeyIndex([j \in 1..Len(os) |-> os[j].champion], b) = 0
              THEN Append(os, [champion |-> b, wins |-> 0, games |-> 0]) ELSE os
        k  == KeyIndex([j \in 1..Len(o1) |-> o1[j].champion], b)
    IN  [r1 EXCEPT ![i].opponents =
            [o1 EXCEPT ![k].games = @ + games, ![k].wins = @ + wins]]

\* RecordMatchup crediting the second side by its own win flag
RecordMatchupOwnFlag(rows, s1, s2) ==
    LET a == BumpRow(rows, s1.champion, s2.champion, 1, IF s1.win THEN 1 ELSE 0)
    IN  BumpRow(a, s2.champion, s1.champion, 1, IF s2.win THEN 1 ELSE 0)

\* RecordMatchup without lines 310-311: the side of team 200 is never
\* credited.
RecordMatchupFirstOnly(rows, s1, s2) ==
    LET a == BumpRow(rows, s1.champion, s2.champion, 1, IF s1.win THEN 1 ELSE 0)
    IN  BumpRow(a, s2.champion, s1.champion, 1, 0)

\* Lines 301-311: one observation, s1 the slot of team 100, s2 of team 200.
RecordMatchup(rows, s1, s2) ==
    LET a == BumpRow(rows, s1.champion, s2.champion, 1, IF s1.win THEN 1 ELSE 0)
    IN  BumpRow(a, s2.champion, s1.champion, 1, IF ~s1.win THEN 1 ELSE 0)

\* Lines 299-311: the loop over the canonical positions, from the i-th on.
RECURSIVE TrackPositions(_, _, _)
TrackPositions(rows, tp, i) ==
    IF i > Len(CanonicalPositions) THEN rows
    ELSE LET pos == CanonicalPositions[i]
             i1  == SlotIndex(tp.t100, pos)
             i2  == SlotIndex(tp.t200, pos)
         IN  IF i1 # 0 /\ i2 # 0
             THEN TrackPositions(RecordMatchup(rows, tp.t100[i1], tp.t200[i2]),
                                 tp, i + 1)
             ELSE TrackPositions(rows, tp, i + 1)

\* The body of  for match in matches  (lines 277-314).
MatchupMatch(rows, m) ==
    IF ~m.has_participants THEN rows
    ELSE LET tp == TeamPositions(NoSlots, m.participants)
         IN  IF tp.raised THEN rows ELSE TrackPositions(rows, tp, 1)

\* Lines 320-326: the opponents of one champion that are reported
RECURSIVE SignificantOpponents(_)
SignificantOpponents(os) ==
    IF os = <<>> THEN <<>>
    ELSE IF Head(os).games >= MinMatchupGames
         THEN <<[champion |-> Head(os).champion,
                 games |-> Head(os).games,
                 wins |-> Head(os).wins,
                 win_rate |-> Round(Head(os).wins * 10000, Head(os).games)]>>
              \o SignificantOpponents(Tail(os))
    ELSE SignificantOpponents(Tail(os))

\* Lines 316-331
RECURSIVE SignificantMatchups(_)
SignificantMatchups(rows) ==
    IF rows = <<>> THEN <<>>
    ELSE LET cm == SignificantOpponents(Head(rows).opponents)
         IN  IF cm # <<>>
             THEN <<[champion |-> Head(rows).champion, opponents |-> cm] >>
                  \o SignificantMatchups(Tail(rows))
             ELSE SignificantMatchups(Tail(rows))

RECURSIVE FoldMatchups(_, _)
FoldMatchups(rows, ms) ==
    IF ms = <<>> THEN rows
    ELSE FoldMatchups(MatchupMatch(rows, Head(ms)), Tail(ms))

aggregate_matchups(ms) == SignificantMatchups(FoldMatchups(<<>>, ms))

\* rows[a][b], a row never touched reading as the defaultdict's zeros
RowOf(rows, a, b) ==
    LET i == KeyIndex([j \in 1..Len(rows) |-> rows[j].champion], a)
    IN  IF i = 0 THEN [wins |-> 0, games |-> 0]
        ELSE LET os == rows[i].opponents
                 k  == KeyIndex([j \in 1..Len(os) |-> os[j].champion], b)
             IN  IF k = 0 THEN [wins |-> 0, games |-> 0]
                 ELSE [wins |-> os[k].wins, games |-> os[k].games]

\* b is a key of out[a]
Reported(out, a, b) ==
    LET i == KeyIndex([j \in 1..Len(out) |-> out[j].champion], a)
    IN  /\ i # 0
        /\ KeyIndex([j \in 1..Len(out[i].opponents) |-> out[i].opponents[j].champion], b) # 0

----------------------------------------------------------------------------
(* aggregate_objective_correlations *)

\* Lines 335-340 and 358-363: the four objective keys, in dict order
ObjectiveKeys == <<"first_blood", "first_tower", "first_dragon", "first_baron">>

\* Line 349
TeamColors == <<"blue", "red">>

\* Lines 335-340
FreshObjectiveRows ==
    [i \in 1..Len(ObjectiveKeys) |->
        [objective |-> ObjectiveKeys[i], wins |-> 0, games |-> 0]]

\* CountObjective with the win counted outside the test of the flag
CountObjectiveDedented(row, flagged, won) ==
    [row EXCEPT !.games = @ + (IF flagged THEN 1 ELSE 0),
                !.wins = @ + (IF won THEN 1 ELSE 0)]

\* Lines 364-367
CountObjective(row, flagged, won) ==
    IF flagged
    THEN [row EXCEPT !.games = @ + 1, !.wins = @ + (IF won THEN 1 ELSE 0)]
    ELSE row

\* Lines 353-367: one team of a match
ObjectiveTeam(rows, team) ==
    [i \in 1..Len(rows) |->
        CountObjective(rows[i], rows[i].objective \in team.objectives, team.win)]

\* Lines 349-367: the loop over the team colours, from the i-th on
RECURSIVE ObjectiveTeams(_, _, _)
ObjectiveTeams(rows, team_stats, i) ==
    IF i > Len(TeamColors) THEN rows
    ELSE IF ~team_stats[TeamColors[i]].present
         THEN ObjectiveTeams(rows, team_stats, i + 1)
    ELSE ObjectiveTeams(ObjectiveTeam(rows, team_stats[TeamColors[i]]),
                        team_stats, i + 1)

\* The body of  for match in matches  (lines 342-370)
ObjectiveMatch(rows, m) ==
    IF ~m.has_team_stats THEN rows
    ELSE ObjectiveTeams(rows, m.team_stats, 1)

\* Lines 374-377
ObjectiveWinRate(wins, games) ==
    IF games > 0 THEN Round(wins * 10000, games) ELSE 0

\* ObjectiveFinal leaving out the objectives without a game, as the other
\* reducers leave out their rows without a game
ObjectiveFinalSkippingEmpty(rows) ==
    LET kept == SelectSeq(rows, LAMBDA r : r.games > 0)
    IN  [i \in 1..Len(kept) |->
            [objective |-> kept[i].objective, wins |-> kept[i].wins,
             games |-> kept[i].games,
             win_rate |-> Round(kept[i].wins * 10000, kept[i].games)]]

\* Lines 372-379
ObjectiveFinal(rows) ==
    [i \in 1..Len(rows) |->
        [objective |-> rows[i].objective, wins |-> rows[i].wins,
         games |-> rows[i].games,
         win_rate |-> ObjectiveWinRate(rows[i].wins, rows[i].games)]]

RECURSIVE FoldObjectives(_, _)
FoldObjectives(rows, ms) ==
    IF ms = <<>> THEN rows
    ELSE FoldObjectives(ObjectiveMatch(rows, Head(ms)), Tail(ms))

aggregate_objective_correlations(ms) ==
    ObjectiveFinal(FoldObjectives(FreshObjectiveRows, ms))

----------------------------------------------------------------------------
(* The entity reducer on its own: aggregate_champion_stats folding a list   *)
(* of matches, one match per step, the match read drawn when it is read.    *)

EntityParticipants ==
    {Participant("Ashe", TRUE, 100, "TOP", "none"),
     Participant("Ashe", FALSE, 200, "MIDDLE", "none"),
     Participant("Zed", TRUE, 100, "MIDDLE", "none"),
     Participant("Lux", FALSE, 200, "", "none"),
     Participant("Unknown", TRUE, 100, "TOP", "none"),
     Participant("Ashe", TRUE, 100, "TOP", "null_kills"),
     Participant("Zed", FALSE, 200, "TOP", "null_record")}

\* A malformed participant between two sound ones
EntityFaultyLineups ==
    {<<Participant("Zed", TRUE, 100, "MIDDLE", "none"), p,
       Participant("Lux", FALSE, 200, "", "none")>> :
       p \in {q \in EntityParticipants : q.fault # "none"}}

EntityMatches ==
    {Match(FALSE, <<>>, FALSE, NoTeamStats)}
    \cup {Match(TRUE, ps, FALSE, NoTeamStats) :
            ps \in Lineups(EntityParticipants) \cup EntityFaultyLineups}

\* What the fold would leave had each raising participant been skipped on its
\* own: nothing of it is counted, the rest of its match is.
RECURSIVE SkippingParticipants(_, _)
SkippingParticipants(data, ps) ==
    IF ps = <<>> THEN data
    ELSE LET r == ChampionParticipant(data, Head(ps))
         IN  SkippingParticipants(IF r.raised THEN data ELSE r.data, Tail(ps))

SkippingMatch(data, m) ==
    IF ~m.has_participants THEN data
    ELSE SkippingParticipants(data, m.participants)

Idle ==
    /\ bucket = <<>>
    /\ invocation = 0
    /\ match_files = <<>>
    /\ matches = <<>>
    /\ champion_data = <<>>
    /\ champion_stats = <<>>
    /\ role_stats = <<>>
    /\ item_builds = <<>>
    /\ matchup_rows = <<>>
    /\ matchup_data = <<>>
    /\ objective_rows = <<>>
    /\ objective_stats = <<>>
    /\ total_matches = 0
    /\ meta_summary = <<>>
    /\ sink = <<>>
    /\ now = 0
    /\ result = <<>>
    /\ idx = 0
    /\ h_expected = <<>>
    /\ h_observed = <<>>
    /\ h_flagged = <<>>
    /\ h_matchups = <<>>
    /\ CollectIdle

InitEntity == Idle /\ pc = "champion_call"

\* Lines 54-70
EntityEnter ==
    /\ pc = "champion_call"
    /\ champion_data' = FreshChampionData
    /\ h_expected' = <<>>
    /\ idx' = 0
    /\ pc' = "champion_loop"
    /\ UNCHANGED <<bucket, invocation, match_files, matches, champion_stats,
                   role_stats, item_builds, matchup_rows, matchup_data,
                   objective_rows, objective_stats, total_matches, meta_summary,
                   sink, now, result, h_observed, h_flagged,
                   h_matchups,
                   collectVars>>

\* Lines 72-106, one match
EntityFold ==
    /\ pc = "champion_loop"
    /\ idx < MaxMatches
    /\ \E m \in EntityMatches :
         /\ champion_data' = ChampionMatch(champion_data, m)
         /\ h_expected' = SkippingMatch(h_expected, m)
    /\ idx' = idx + 1
    /\ UNCHANGED <<bucket, pc, invocation, match_files, matches, champion_stats,
                   role_stats, item_builds, matchup_rows, matchup_data,
                   objective_rows, objective_stats, total_matches, meta_summary,
                   sink, now, result, h_observed, h_flagged,
                   h_matchups,
                   collectVars>>

\* Lines 108-153
EntityReturn ==
    /\ pc = "champion_loop"
    /\ champion_stats' = ChampionFinal(champion_data)
    /\ pc' = "champion_done"
    /\ UNCHANGED <<bucket, invocation, match_files, matches, champion_data,
                   role_stats, item_builds, matchup_rows, matchup_data,
                   objective_rows, objective_stats, total_matches, meta_summary,
                   sink, now, result, idx, h_expected, h_observed, h_flagged,
                   h_matchups,
                   collectVars>>

NextEntity == EntityEnter \/ EntityFold \/ EntityReturn

SpecEntity == InitEntity /\ [][NextEntity]_vars

----------------------------------------------------------------------------
(* The entity reducer's position tracking on its own: one champion played   *)
(* in up to MaxPositionMatches matches, under every kind of role label.     *)

\* A participant whose 'position' is empty and whose 'individual_position'
\* holds the label
WithIndividualPosition(p, label) == [p EXCEPT !.individual_position = label]

\* Ashe with a role, with another, with no role label at all, with the
\* sentinel, with the label in 'individual_position' only, and with a null
\* 'kills'
PositionParticipants ==
    {Participant("Ashe", TRUE, 100, "TOP", "none"),
     Participant("Ashe", FALSE, 200, "MIDDLE", "none"),
     Participant("Ashe", TRUE, 100, "", "none"),
     Participant("Ashe", FALSE, 200, "Invalid", "none"),
     WithIndividualPosition(Participant("Ashe", TRUE, 100, "", "none"), "JUNGLE"),
     Participant("Ashe", TRUE, 100, "TOP", "null_kills")}

PositionMatches ==
    {Match(TRUE, <<p>>, FALSE, NoTeamStats) : p \in PositionParticipants}

InitPositions == Idle /\ pc = "champion_call"

\* Lines 72-106, one match
PositionFold ==
    /\ pc = "champion_loop"
    /\ idx < MaxPositionMatches
    /\ \E m \in PositionMatches :
         champion_data' = ChampionMatch(champion_data, m)
    /\ idx' = idx + 1
    /\ UNCHANGED <<bucket, pc, invocation, match_files, matches, champion_stats,
                   role_stats, item_builds, matchup_rows, matchup_data,
                   objective_rows, objective_stats, total_matches, meta_summary,
                   sink, now, result, h_expected, h_observed, h_flagged,
                   h_matchups,
                   collectVars>>

NextPositions == EntityEnter \/ PositionFold \/ EntityReturn

SpecPositions == InitPositions /\ [][NextPositions]_vars

----------------------------------------------------------------------------
(* create_meta_summary *)

\* Lines 387, 399, 405: the games an entity needs to be ranked
MinGamesForRanking == 5

\* Lines 390, 396, 402, 408: the length of a ranking
TopN == 10

\* Lines 411-416 and 488: the breakpoints of the sample size
HighReliabilityMatches == 300

MediumReliabilityMatches == 150

LowReliabilityMatches == 50

SufficientSampleMatches == 500

HasEnoughGames(stats) == stats.games_played >= MinGamesForRanking

\* Lines 386-390
top_by_winrate(stats) ==
    LET eligible == SelectSeq(stats, HasEnoughGames)
    IN  Take(SortedDesc(eligible, [i \in 1..Len(eligible) |-> eligible[i].win_rate]), TopN)

\* Lines 392-396
top_by_pickrate(stats) ==
    Take(SortedDesc(stats, [i \in 1..Len(stats) |-> stats[i].pick_rate]), TopN)

\* Lines 398-402
top_by_gold_efficiency(stats) ==
    LET eligible == SelectSeq(stats, HasEnoughGames)
    IN  Take(SortedDesc(eligible, [i \in 1..Len(eligible) |-> eligible[i].gold_efficiency]),
             TopN)

\* Lines 404-408
top_by_vision(stats) ==
    LET eligible == SelectSeq(stats, HasEnoughGames)
    IN  Take(SortedDesc(eligible,
                        [i \in 1..Len(eligible) |-> eligible[i].avg_vision_per_min]),
             TopN)

\* assess_reliability with strict comparisons at the breakpoints
assess_reliabilityStrict(games) ==
    IF games > HighReliabilityMatches THEN "High"
    ELSE IF games > MediumReliabilityMatches THEN "Medium"
    ELSE IF games > LowReliabilityMatches THEN "Low"
    ELSE "Very Low"

\* Lines 410-418
assess_reliability(games) ==
    IF games >= HighReliabilityMatches THEN "High"
    ELSE IF games >= MediumReliabilityMatches THEN "Medium"
    ELSE IF games >= LowReliabilityMatches THEN "Low"
    ELSE "Very Low"

\* Lines 420-493.  data_collection_date is the clock reading at the call; a
\* data_quality_notes string is the tuple of the values formatted into it.
create_meta_summary(stats, roles, objectives, total, clock) ==
    LET wr == top_by_winrate(stats)
        pr == top_by_pickrate(stats)
        ge == top_by_gold_efficiency(stats)
        vc == top_by_vision(stats)
    IN
    [patch |-> "",
     total_matches_analyzed |-> total,
     champions_with_data |-> Len(stats),
     data_collection_date |-> clock,
     reliability_assessment |-> assess_reliability(total),
     meta_overview |->
       [top_10_by_win_rate |->
          [i \in 1..Len(wr) |->
             [rank |-> i, champion |-> wr[i].champion, win_rate |-> wr[i].win_rate,
              pick_rate |-> wr[i].pick_rate, avg_kda |-> wr[i].avg_kda,
              primary_position |-> wr[i].primary_position]],
        top_10_by_pick_rate |->
          [i \in 1..Len(pr) |->
             [rank |-> i, champion |-> pr[i].champion, pick_rate |-> pr[i].pick_rate,
              win_rate |-> pr[i].win_rate, games |-> pr[i].games_played]],
        top_10_gold_efficient |->
          [i \in 1..Len(ge) |->
             [rank |-> i, champion |-> ge[i].champion,
              gold_efficiency |-> ge[i].gold_efficiency,
              avg_gold_per_min |-> ge[i].avg_gold_per_min,
              avg_damage |-> ge[i].avg_damage,
              primary_position |-> ge[i].primary_position]],
        top_10_vision_control |->
          [i \in 1..Len(vc) |->
             [rank |-> i, champion |-> vc[i].champion,
              avg_vision_per_min |-> vc[i].avg_vision_per_min,
              avg_vision_score |-> vc[i].avg_vision_score,
              primary_position |-> vc[i].primary_position]]],
     role_economy |->
       [i \in 1..Len(roles) |->
          [role |-> roles[i].position,
           avg_gold_per_min |-> roles[i].avg_gold_per_min,
           avg_vision_per_min |-> roles[i].avg_vision_per_min,
           win_rate |-> roles[i].win_rate]],
     objective_importance |-> objectives,
     data_quality_notes |->
       <<<<"Sample size", total, assess_reliability(total)>>,
         IF total >= SufficientSampleMatches
         THEN <<"Sample size is sufficient for reliable analysis">>
         ELSE <<"Recommended minimum: 500 matches">>,
         <<"Current data covers", Len(stats)>> >>]

----------------------------------------------------------------------------
(* The matchup reducer on its own: aggregate_matchups folding a list of     *)
(* matches, one match per step.                                             *)

MatchupNames == {"Ashe", "Zed", "Unknown"}

\* Sound participants in the TOP role
TopPlayers(team) ==
    {Participant(c, w, team, "TOP", "none") : c \in {"Ashe", "Zed"}, w \in BOOLEAN}

\* Participants the partition has to drop, and an "Unknown" champion
OddPlayers ==
    {Participant("Ashe", TRUE, 100, "", "none"),
     Participant("Ashe", TRUE, 100, "Invalid", "none"),
     Participant("Ashe", TRUE, 0, "TOP", "none"),
     Participant("Ashe", TRUE, 300, "TOP", "none"),
     Participant(NoChampion, TRUE, 100, "TOP", "none"),
     Participant("Unknown", TRUE, 100, "TOP", "none"),
     Participant("Ashe", TRUE, 100, "TOP", "null_record")}

MatchupLineups ==
    Lineups(TopPlayers(100) \cup TopPlayers(200))
    \cup {<<a, o, b>> : a \in TopPlayers(100), o \in OddPlayers, b \in TopPlayers(200)}
    \cup {<<a, b, Participant("Zed", TRUE, 100, "MIDDLE", "none"),
            Participant("Ashe", FALSE, 200, "MIDDLE", "none")>> :
            a \in TopPlayers(100), b \in TopPlayers(200)}

MatchupMatches ==
    {Match(FALSE, <<>>, FALSE, NoTeamStats)}
    \cup {Match(TRUE, ps, FALSE, NoTeamStats) : ps \in MatchupLineups}

\* The champion that occupies (team, role) in a match: the last sound
\* participant of that team and role with a champion; NoChampion when none.
Occupant(m, team, role) ==
    LET ps == m.participants
        is == {i \in 1..Len(ps) : /\ ps[i].fault = "none"
                                   /\ ps[i].team_id = team
                                   /\ PositionOf(ps[i]) = role
                                   /\ HasChampion(ps[i])}
    IN  IF ~m.has_participants \/ is = {} THEN NoChampion
        ELSE ps[CHOOSE i \in is : \A j \in is : j <= i].champion

\* a and b occupied the same canonical role on opposite teams in match m.
Met(m, a, b) ==
    \E k \in 1..Len(CanonicalPositions) :
        \/ /\ Occupant(m, 100, CanonicalPositions[k]) = a
           /\ Occupant(m, 200, CanonicalPositions[k]) = b
        \/ /\ Occupant(m, 100, CanonicalPositions[k]) = b
           /\ Occupant(m, 200, CanonicalPositions[k]) = a

\* The canonical roles in which the partition tp holds a on team 100 facing b
\* on team 200
Facing(tp, a, b) ==
    {k \in 1..Len(CanonicalPositions) :
        LET i1 == SlotIndex(tp.t100, CanonicalPositions[k])
            i2 == SlotIndex(tp.t200, CanonicalPositions[k])
        IN  /\ i1 # 0
            /\ i2 # 0
            /\ tp.t100[i1].champion = a
            /\ tp.t200[i2].champion = b}

\* The win flag of the team's occupant of the k-th canonical role
SlotWin(slots, k) == slots[SlotIndex(slots, CanonicalPositions[k])].win

\* The canonical roles of match m in which a, on team 100, faces b, on team
\* 200, when every participant that cannot occupy a slot is left out alone
FacingAlone(m, a, b) ==
    {k \in 1..Len(CanonicalPositions) :
        /\ Occupant(m, 100, CanonicalPositions[k]) = a
        /\ Occupant(m, 200, CanonicalPositions[k]) = b}

HasNullRecord(m) ==
    \E i \in 1..Len(m.participants) : m.participants[i].fault = "null_record"

\* What match m adds to the row (a, b).  games: the observations recorded
\* with a on either side; own_wins: those in which a's own win flag is true;
\* first_wins: those in which a is on team 100 and team 100's flag is true,
\* or a is on team 200 and team 100's flag is false; alone: the observations
\* of the participants that remain when each participant without a role,
\* team or champion is dropped on its own.
Observations(m, a, b) ==
    LET tp == TeamPositions(NoSlots, m.participants)
        ab == IF m.has_participants /\ ~tp.raised THEN Facing(tp, a, b) ELSE {}
        ba == IF m.has_participants /\ ~tp.raised THEN Facing(tp, b, a) ELSE {}
    IN  [games |-> Cardinality(ab) + Cardinality(ba),
         own_wins |-> Cardinality({k \in ab : SlotWin(tp.t100, k)})
                      + Cardinality({k \in ba : SlotWin(tp.t200, k)}),
         first_wins |-> Cardinality({k \in ab : SlotWin(tp.t100, k)})
                        + Cardinality({k \in ba : ~SlotWin(tp.t100, k)}),
         alone |-> IF ~m.has_participants \/ HasNullRecord(m) THEN 0
                   ELSE Cardinality(FacingAlone(m, a, b))
                        + Cardinality(FacingAlone(m, b, a))]

NoObservations == [games |-> 0, own_wins |-> 0, first_wins |-> 0, alone |-> 0]

AddObservations(h, o) ==
    [games |-> h.games + o.games, own_wins |-> h.own_wins + o.own_wins,
     first_wins |-> h.first_wins + o.first_wins, alone |-> h.alone + o.alone]

InitMatchups == Idle /\ pc = "matchups_call"

\* Line 275
MatchupEnter ==
    /\ pc = "matchups_call"
    /\ matchup_rows' = <<>>
    /\ h_observed' = [ab \in MatchupNames \X MatchupNames |-> 0]
    /\ h_matchups' = [ab \in MatchupNames \X MatchupNames |-> NoObservations]
    /\ idx' = 0
    /\ pc' = "matchups_loop"
    /\ UNCHANGED <<bucket, invocation, match_files, matches, champion_data,
                   champion_stats, role_stats, item_builds, matchup_data,
                   objective_rows, objective_stats, total_matches, meta_summary,
                   sink, now, result, h_expected, h_flagged,
                   collectVars>>

\* Lines 277-314, one match
MatchupFold ==
    /\ pc = "matchups_loop"
    /\ idx < MaxMatches
    /\ \E m \in MatchupMatches :
         /\ matchup_rows' = MatchupMatch(matchup_rows, m)
         /\ h_observed' = [ab \in MatchupNames \X MatchupNames |->
                             h_observed[ab] + (IF Met(m, ab[1], ab[2]) THEN 1 ELSE 0)]
    /\ idx' = idx + 1
    /\ UNCHANGED <<bucket, pc, invocation, match_files, matches, champion_data,
                   champion_stats, role_stats, item_builds, matchup_data,
                   objective_rows, objective_stats, total_matches, meta_summary,
                   sink, now, result, h_expected, h_flagged, h_matchups,
                   collectVars>>

\* Lines 316-331
MatchupReturn ==
    /\ pc = "matchups_loop"
    /\ matchup_data' = SignificantMatchups(matchup_rows)
    /\ pc' = "matchups_done"
    /\ UNCHANGED <<bucket, invocation, match_files, matches, champion_data,
                   champion_stats, role_stats, item_builds, matchup_rows,
                   objective_rows, objective_stats, total_matches, meta_summary,
                   sink, now, result, idx, h_expected, h_observed, h_flagged,
                   h_matchups,
                   collectVars>>

NextMatchups == MatchupEnter \/ MatchupFold \/ MatchupReturn

SpecMatchups == InitMatchups /\ [][NextMatchups]_vars

----------------------------------------------------------------------------
(* The matchup reducer's observations: aggregate_matchups folding matches   *)
(* whose participants carry every combination of win flags, and matches     *)
(* with a participant the partition has to drop.                            *)

ObservationLineups ==
    {<<a, b>> : a \in TopPlayers(100), b \in TopPlayers(200)}
    \cup {<<Participant("Ashe", TRUE, 100, "TOP", "none"), o,
             Participant("Zed", FALSE, 200, "TOP", "none")>> : o \in OddPlayers}
    \cup {<<Participant("Ashe", TRUE, 100, "TOP", "none"),
             Participant("Zed", FALSE, 200, "TOP", "none"),
             Participant("Zed", TRUE, 100, "MIDDLE", "none"),
             Participant("Ashe", FALSE, 200, "MIDDLE", "none")>>,
           <<Participant("Ashe", TRUE, 100, "TOP", "none"),
             Participant("Zed", FALSE, 100, "TOP", "none"),
             Participant("Ashe", TRUE, 200, "TOP", "none")>>}

ObservationMatches ==
    {Match(FALSE, <<>>, FALSE, NoTeamStats)}
    \cup {Match(TRUE, ps, FALSE, NoTeamStats) : ps \in ObservationLineups}

InitObservations == Idle /\ pc = "matchups_call"

\* Lines 277-314, one match
ObservationFold ==
    /\ pc = "matchups_loop"
    /\ idx < MaxMatches
    /\ \E m \in ObservationMatches :
         /\ matchup_rows' = MatchupMatch(matchup_rows, m)
         /\ h_matchups' = [ab \in MatchupNames \X MatchupNames |->
                             AddObservations(h_matchups[ab],
                                             Observations(m, ab[1], ab[2]))]
    /\ idx' = idx + 1
    /\ UNCHANGED <<bucket, pc, invocation, match_files, matches, champion_data,
                   champion_stats, role_stats, item_builds, matchup_data,
                   objective_rows, objective_stats, total_matches, meta_summary,
                   sink, now, result, h_expected, h_observed, h_flagged,
                   collectVars>>

NextObservations == MatchupEnter \/ ObservationFold \/ MatchupReturn

SpecObservations == InitObservations /\ [][NextObservations]_vars

----------------------------------------------------------------------------
(* The objective reducer on its own: aggregate_objective_correlations       *)
(* folding a list of matches, one match per step.                           *)

Team(win, objectives) == [present |-> TRUE, win |-> win, objectives |-> objectives]

ObjectiveTeamRecords ==
    {NoTeam}
    \cup {Team(w, os) : w \in BOOLEAN,
                        os \in {{}, {"first_blood"}, {"first_blood", "first_tower"},
                                {"first_dragon", "first_baron"},
                                {"first_blood", "first_tower", "first_dragon",
                                 "first_baron"}}}

ObjectiveMatches ==
    {Match(FALSE, <<>>, FALSE, NoTeamStats)}
    \cup {Match(FALSE, <<>>, TRUE, [blue |-> b, red |-> r]) :
            b, r \in ObjectiveTeamRecords}

\* The teams of match m that are present and carry the flag of objective o
FlaggedTeams(m, o) ==
    {t \in {"blue", "red"} : /\ m.has_team_stats
                             /\ m.team_stats[t].present
                             /\ o \in m.team_stats[t].objectives}

InitObjectives == Idle /\ pc = "objectives_call"

\* Lines 335-340
ObjectiveEnter ==
    /\ pc = "objectives_call"
    /\ objective_rows' = FreshObjectiveRows
    /\ h_flagged' = [o \in {ObjectiveKeys[i] : i \in 1..Len(ObjectiveKeys)} |->
                        [games |-> 0, wins |-> 0]]
    /\ idx' = 0
    /\ pc' = "objectives_loop"
    /\ UNCHANGED <<bucket, invocation, match_files, matches, champion_data,
                   champion_stats, role_stats, item_builds, matchup_rows,
                   matchup_data, objective_stats, total_matches, meta_summary,
                   sink, now, result, h_expected, h_observed,
                   h_matchups,
                   collectVars>>

\* Lines 342-370, one match
ObjectiveFold ==
    /\ pc = "objectives_loop"
    /\ idx < MaxMatches
    /\ \E m \in ObjectiveMatches :
         /\ objective_rows' = ObjectiveMatch(objective_rows, m)
         /\ h_flagged' =
              [o \in DOMAIN h_flagged |->
                 [games |-> h_flagged[o].games + Cardinality(FlaggedTeams(m, o)),
                  wins |-> h_flagged[o].wins
                           + Cardinality({t \in FlaggedTeams(m, o) : m.team_stats[t].win})]]
    /\ idx' = idx + 1
    /\ UNCHANGED <<bucket, pc, invocation, match_files, matches, champion_data,
                   champion_stats, role_stats, item_builds, matchup_rows,
                   matchup_data, objective_stats, total_matches, meta_summary,
                   sink, now, result, h_expected, h_observed,
                   h_matchups,
                   collectVars>>

\* Lines 372-379
ObjectiveReturn ==
    /\ pc = "objectives_loop"
    /\ objective_stats' = ObjectiveFinal(objective_rows)
    /\ pc' = "objectives_done"
    /\ UNCHANGED <<bucket, invocation, match_files, matches, champion_data,
                   champion_stats, role_stats, item_builds, matchup_rows,
                   matchup_data, objective_rows, total_matches, meta_summary,
                   sink, now, result, idx, h_expected, h_observed, h_flagged,
                   h_matchups,
                   collectVars>>

NextObjectives == ObjectiveEnter \/ ObjectiveFold \/ ObjectiveReturn

SpecObjectives == InitObjectives /\ [][NextObjectives]_vars

----------------------------------------------------------------------------
(* The summary composer on its own: create_meta_summary called on the       *)
(* entity stats that aggregate_champion_stats returns for a set of          *)
(* champions.                                                               *)

EntityNames ==
    <<"Aatrox", "Ahri", "Akali", "Ashe", "Bard", "Braum", "Caitlyn", "Darius",
      "Ekko", "Fizz", "Garen", "Jinx", "Karma", "Lux", "Nami", "Zed">>

\* What a champion's participants looked like: games, wins, damage per game,
\* vision per minute
OrdinaryKind == [games |-> 5, wins |-> 3, damage |-> 500, vision |-> 80]

SpecialKinds ==
    {[games |-> 4, wins |-> 4, damage |-> 2000, vision |-> 200],
     [games |-> 3, wins |-> 0, damage |-> 50, vision |-> 10],
     [games |-> 6, wins |-> 5, damage |-> 900, vision |-> 120],
     [games |-> 5, wins |-> 1, damage |-> 100, vision |-> 40]}

\* champion_data[name] after folding the participants of a champion of kind k
KindRow(name, k) ==
    [champion |-> name, games |-> k.games, wins |-> k.wins,
     kills |-> 3 * k.games, deaths |-> k.games, assists |-> 4 * k.games,
     total_damage |-> k.damage * k.games, total_cs |-> 150 * k.games,
     total_gold |-> 1000 * k.games, total_vision_score |-> 20 * k.games,
     positions |-> <<[key |-> "TOP", count |-> k.games]>>,
     cs_per_min_samples |-> [g \in 1..k.games |-> 700],
     gold_per_min_samples |-> [g \in 1..k.games |-> 4000],
     vision_per_min_samples |-> [g \in 1..k.games |-> k.vision],
     damage_per_min_samples |-> [g \in 1..k.games |-> 2000],
     kda_samples |-> [g \in 1..k.games |-> 700]]

\* n champions, all ordinary but the i-th and the j-th
SummaryData(n, i, ki, j, kj) ==
    [x \in 1..n |->
        KindRow(EntityNames[x],
                IF x = i THEN ki ELSE IF x = j THEN kj ELSE OrdinaryKind)]

SummaryInputs ==
    {ChampionFinal(SummaryData(n, ij[1], ki, ij[2], kj)) :
        n \in 0..MaxEntities,
        ij \in {x \in (1..MaxEntities) \X (1..MaxEntities) : x[1] < x[2]},
        ki, kj \in SpecialKinds \cup {OrdinaryKind}}

SummaryTotals ==
    {0, LowReliabilityMatches - 1, LowReliabilityMatches,
     MediumReliabilityMatches - 1, MediumReliabilityMatches,
     HighReliabilityMatches - 1, HighReliabilityMatches, SufficientSampleMatches}

\* The calls made: every mapping with no match counted, and the small
\* mappings with every total
SummaryCalls ==
    (SummaryInputs \X {0})
    \cup ({st \in SummaryInputs : Len(st) <= 2} \X SummaryTotals)

InitSummary ==
    /\ bucket = <<>>
    /\ invocation = 0
    /\ match_files = <<>>
    /\ matches = <<>>
    /\ champion_data = <<>>
    /\ \E call \in SummaryCalls :
         /\ champion_stats = call[1]
         /\ total_matches = call[2]
    /\ role_stats = <<>>
    /\ item_builds = <<>>
    /\ matchup_rows = <<>>
    /\ matchup_data = <<>>
    /\ objective_rows = <<>>
    /\ objective_stats = aggregate_objective_correlations(<<>>)
    /\ meta_summary = <<>>
    /\ sink = <<>>
    /\ now = 0
    /\ result = <<>>
    /\ idx = 0
    /\ h_expected = <<>>
    /\ h_observed = <<>>
    /\ h_flagged = <<>>
    /\ h_matchups = <<>>
    /\ CollectIdle
    /\ pc = "summary_call"

\* Lines 381-493: the call of create_meta_summary
SummaryCall ==
    /\ pc = "summary_call"
    /\ meta_summary' = create_meta_summary(champion_stats, role_stats,
                                           objective_stats, total_matches, now)
    /\ pc' = "summary_done"
    /\ UNCHANGED <<bucket, invocation, match_files, matches, champion_data,
                   champion_stats, role_stats, item_builds, matchup_rows,
                   matchup_data, objective_rows, objective_stats, total_matches,
                   sink, now, result, idx, h_expected, h_observed, h_flagged,
                   h_matchups,
                   collectVars>>

NextSummary == SummaryCall

SpecSummary == InitSummary /\ [][NextSummary]_vars

----------------------------------------------------------------------------
(* aggregate_match_data: the pipeline, called MaxInvocations times on the   *)
(* same bucket.                                                             *)

\* Line 566: the patch the script aggregates
Patch == "15.20"

\* Lines 543-548: the keys of outputs, in the order they are saved
OutputKeys ==
    <<"aggregated/15.20/champion_stats.json", "aggregated/15.20/role_meta.json",
      "aggregated/15.20/item_builds.json", "aggregated/15.20/matchup_data.json",
      "aggregated/15.20/objective_correlations.json",
      "aggregated/15.20/meta_summary.json">>

\* Lines 542-549: outputs[key]
OutputOf(k) ==
    IF k = 1 THEN champion_stats
    ELSE IF k = 2 THEN role_stats
    ELSE IF k = 3 THEN item_builds
    ELSE IF k = 4 THEN matchup_data
    ELSE IF k = 5 THEN objective_stats
    ELSE meta_summary

WithItems(p, items) == [p EXCEPT !.items = items]

BlueWon ==
    [blue |-> [present |-> TRUE, win |-> TRUE, objectives |-> {"first_blood"}],
     red |-> [present |-> TRUE, win |-> FALSE, objectives |-> {"first_tower"}]]

\* The objects of the bucket: two match files and one that does not load
BucketFiles ==
    {[readable |-> FALSE, data |-> Match(FALSE, <<>>, FALSE, NoTeamStats)],
     [readable |-> TRUE,
      data |-> Match(TRUE,
                     <<WithItems(Participant("Ashe", TRUE, 100, "TOP", "none"), <<3, 1, 2>>),
                       WithItems(Participant("Zed", FALSE, 200, "TOP", "none"), <<1, 2, 3>>)>>,
                     TRUE, BlueWon)],
     [readable |-> TRUE,
      data |-> Match(TRUE,
                     <<WithItems(Participant("Zed", TRUE, 100, "TOP", "none"), <<2, 1, 3>>),
                       Participant("Ashe", FALSE, 200, "MIDDLE", "none")>>,
                     FALSE, NoTeamStats)]}

Init ==
    /\ bucket \in UNION {[1..n -> BucketFiles] : n \in 0..MaxFiles}
    /\ pc = "idle"
    /\ invocation = 0
    /\ match_files = <<>>
    /\ matches = <<>>
    /\ champion_data = <<>>
    /\ champion_stats = <<>>
    /\ role_stats = <<>>
    /\ item_builds = <<>>
    /\ matchup_rows = <<>>
    /\ matchup_data = <<>>
    /\ objective_rows = <<>>
    /\ objective_stats = <<>>
    /\ total_matches = 0
    /\ meta_summary = <<>>
    /\ sink = <<>>
    /\ now = 0
    /\ result = <<>>
    /\ idx = 0
    /\ h_expected = <<>>
    /\ h_observed = <<>>
    /\ h_flagged = <<>>
    /\ h_matchups = <<>>
    /\ CollectIdle

\* StepAfter with the summary composed ahead of the reducers
StepAfterSummaryFirst(step) ==
    IF step = "loaded" THEN "summary_args"
    ELSE IF step = "summary_done" THEN "champion"
    ELSE IF step = "champion" THEN "role"
    ELSE IF step = "role" THEN "items"
    ELSE IF step = "items" THEN "matchups"
    ELSE IF step = "matchups" THEN "objectives"
    ELSE "save"

\* Lines 517-540: the statement that follows each statement of the pipeline
StepAfter(step) ==
    IF step = "loaded" THEN "champion"
    ELSE IF step = "champion" THEN "role"
    ELSE IF step = "role" THEN "items"
    ELSE IF step = "items" THEN "matchups"
    ELSE IF step = "matchups" THEN "objectives"
    ELSE IF step = "objectives" THEN "summary_args"
    ELSE "save"

\* Lines 563-568: the script is run; the frame of aggregate_match_data is new.
Invoke ==
    /\ pc \in {"idle", "returned"}
    /\ invocation < MaxInvocations
    /\ invocation' = invocation + 1
    /\ match_files' = <<>>
    /\ matches' = <<>>
    /\ champion_stats' = <<>>
    /\ role_stats' = <<>>
    /\ item_builds' = <<>>
    /\ matchup_data' = <<>>
    /\ objective_stats' = <<>>
    /\ meta_summary' = <<>>
    /\ total_matches' = 0
    /\ result' = <<>>
    /\ idx' = 0
    /\ pc' = "list"
    /\ UNCHANGED <<bucket, champion_data, matchup_rows, objective_rows, sink,
                   now, h_expected, h_observed, h_flagged,
                   h_matchups,
                   collectVars>>

\* Line 507, get_match_files (lines 14-28): the keys of the bucket's objects
GetMatchFiles ==
    /\ pc = "list"
    /\ match_files' = [k \in 1..Len(bucket) |-> k]
    /\ pc' = "check"
    /\ UNCHANGED <<bucket, invocation, matches, champion_data, champion_stats,
                   role_stats, item_builds, matchup_rows, matchup_data,
                   objective_rows, objective_stats, total_matches, meta_summary,
                   sink, now, result, idx, h_expected, h_observed, h_flagged,
                   h_matchups,
                   collectVars>>

\* Lines 510-512
NoMatchesFound ==
    /\ pc = "check"
    /\ match_files = <<>>
    /\ result' = <<>>
    /\ pc' = "returned"
    /\ UNCHANGED <<bucket, invocation, match_files, matches, champion_data,
                   champion_stats, role_stats, item_builds, matchup_rows,
                   matchup_data, objective_rows, objective_stats, total_matches,
                   meta_summary, sink, now, idx, h_expected, h_observed,
                   h_flagged,
                   h_matchups,
                   collectVars>>

\* Lines 514 and 32-34
LoadStart ==
    /\ pc = "check"
    /\ match_files # <<>>
    /\ matches' = <<>>
    /\ idx' = 0
    /\ pc' = "load"
    /\ UNCHANGED <<bucket, invocation, match_files, champion_data,
                   champion_stats, role_stats, item_builds, matchup_rows,
                   matchup_data, objective_rows, objective_stats, total_matches,
                   meta_summary, sink, now, result, h_expected, h_observed,
                   h_flagged,
                   h_matchups,
                   collectVars>>

\* Lines 36-45: one file; a file that fails to load is counted and left out.
LoadFile ==
    /\ pc = "load"
    /\ idx < Len(match_files)
    /\ matches' = IF bucket[match_files[idx + 1]].readable
                  THEN Append(matches, bucket[match_files[idx + 1]].data)
                  ELSE matches
    /\ idx' = idx + 1
    /\ UNCHANGED <<bucket, pc, invocation, match_files, champion_data,
                   champion_stats, role_stats, item_builds, matchup_rows,
                   matchup_data, objective_rows, objective_stats, total_matches,
                   meta_summary, sink, now, result, h_expected, h_observed,
                   h_flagged,
                   h_matchups,
                   collectVars>>

\* Lines 47-50 and 514-515
LoadReturn ==
    /\ pc = "load"
    /\ idx = Len(match_files)
    /\ pc' = StepAfter("loaded")
    /\ UNCHANGED <<bucket, invocation, match_files, matches, champion_data,
                   champion_stats, role_stats, item_builds, matchup_rows,
                   matchup_data, objective_rows, objective_stats, total_matches,
                   meta_summary, sink, now, result, idx, h_expected, h_observed,
                   h_flagged,
                   h_matchups,
                   collectVars>>

\* Line 519
AggChampion ==
    /\ pc = "champion"
    /\ champion_data' = FoldChampion(FreshChampionData, matches)
    /\ champion_stats' = ChampionFinal(champion_data')
    /\ pc' = StepAfter("champion")
    /\ UNCHANGED <<bucket, invocation, match_files, matches, role_stats,
                   item_builds, matchup_rows, matchup_data, objective_rows,
                   objective_stats, total_matches, meta_summary, sink, now,
                   result, idx, h_expected, h_observed, h_flagged,
                   h_matchups,
                   collectVars>>

\* Line 523
AggRole ==
    /\ pc = "role"
    /\ role_stats' = aggregate_role_meta(matches)
    /\ pc' = StepAfter("role")
    /\ UNCHANGED <<bucket, invocation, match_files, matches, champion_data,
                   champion_stats, item_builds, matchup_rows, matchup_data,
                   objective_rows, objective_stats, total_matches, meta_summary,
                   sink, now, result, idx, h_expected, h_observed, h_flagged,
                   h_matchups,
                   collectVars>>

\* Line 527
AggItems ==
    /\ pc = "items"
    /\ item_builds' = aggregate_item_builds(matches)
    /\ pc' = StepAfter("items")
    /\ UNCHANGED <<bucket, invocation, match_files, matches, champion_data,
                   champion_stats, role_stats, matchup_rows, matchup_data,
                   objective_rows, objective_stats, total_matches, meta_summary,
                   sink, now, result, idx, h_expected, h_observed, h_flagged,
                   h_matchups,
                   collectVars>>

\* Line 530
AggMatchups ==
    /\ pc = "matchups"
    /\ matchup_rows' = FoldMatchups(<<>>, matches)
    /\ matchup_data' = SignificantMatchups(matchup_rows')
    /\ pc' = StepAfter("matchups")
    /\ UNCHANGED <<bucket, invocation, match_files, matches, champion_data,
                   champion_stats, role_stats, item_builds, objective_rows,
                   objective_stats, total_matches, meta_summary, sink, now,
                   result, idx, h_expected, h_observed, h_flagged,
                   h_matchups,
                   collectVars>>

\* Line 533
AggObjectives ==
    /\ pc = "objectives"
    /\ objective_rows' = FoldObjectives(FreshObjectiveRows, matches)
    /\ objective_stats' = ObjectiveFinal(objective_rows')
    /\ pc' = StepAfter("objectives")
    /\ UNCHANGED <<bucket, invocation, match_files, matches, champion_data,
                   champion_stats, role_stats, item_builds, matchup_rows,
                   matchup_data, total_matches, meta_summary, sink, now, result,
                   idx, h_expected, h_observed, h_flagged,
                   h_matchups,
                   collectVars>>

\* Line 536: the arguments of create_meta_summary are bound
SummaryArgs ==
    /\ pc = "summary_args"
    /\ total_matches' = Len(matches)
    /\ pc' = "summary_call"
    /\ UNCHANGED <<bucket, invocation, match_files, matches, champion_data,
                   champion_stats, role_stats, item_builds, matchup_rows,
                   matchup_data, objective_rows, objective_stats, meta_summary,
                   sink, now, result, idx, h_expected, h_observed, h_flagged,
                   h_matchups,
                   collectVars>>

\* Lines 537-549
SetPatch ==
    /\ pc = "summary_done"
    /\ meta_summary' = [meta_summary EXCEPT !.patch = Patch]
    /\ idx' = 0
    /\ pc' = StepAfter("summary_done")
    /\ UNCHANGED <<bucket, invocation, match_files, matches, champion_data,
                   champion_stats, role_stats, item_builds, matchup_rows,
                   matchup_data, objective_rows, objective_stats, total_matches,
                   sink, now, result, h_expected, h_observed, h_flagged,
                   h_matchups,
                   collectVars>>

\* Lines 551-553 and save_to_s3 (lines 495-503): one artifact
Save ==
    /\ pc = "save"
    /\ idx < Len(OutputKeys)
    /\ sink' = Append(sink, [invocation |-> invocation, key |-> OutputKeys[idx + 1],
                             data |-> OutputOf(idx + 1)])
    /\ idx' = idx + 1
    /\ UNCHANGED <<bucket, pc, invocation, match_files, matches, champion_data,
                   champion_stats, role_stats, item_builds, matchup_rows,
                   matchup_data, objective_rows, objective_stats, total_matches,
                   meta_summary, now, result, h_expected, h_observed, h_flagged,
                   h_matchups,
                   collectVars>>

\* Lines 555-561
Return ==
    /\ pc = "save"
    /\ idx = Len(OutputKeys)
    /\ result' = <<<<"matches_processed", Len(matches)>>,
                   <<"champions_analyzed", Len(champion_stats)>>,
                   <<"aggregation_files", OutputKeys>> >>
    /\ pc' = "returned"
    /\ UNCHANGED <<bucket, invocation, match_files, matches, champion_data,
                   champion_stats, role_stats, item_builds, matchup_rows,
                   matchup_data, objective_rows, objective_stats, total_matches,
                   meta_summary, sink, now, idx, h_expected, h_observed,
                   h_flagged,
                   h_matchups,
                   collectVars>>

\* Time passes.
Tick ==
    /\ now < MaxClock
    /\ now' = now + 1
    /\ UNCHANGED <<bucket, pc, invocation, match_files, matches, champion_data,
                   champion_stats, role_stats, item_builds, matchup_rows,
                   matchup_data, objective_rows, objective_stats, total_matches,
                   meta_summary, sink, result, idx, h_expected, h_observed,
                   h_flagged,
                   h_matchups,
                   collectVars>>

Next ==
    \/ Invoke \/ GetMatchFiles \/ NoMatchesFound \/ LoadStart \/ LoadFile
    \/ LoadReturn \/ AggChampion \/ AggRole \/ AggItems \/ AggMatchups
    \/ AggObjectives \/ SummaryArgs \/ SummaryCall \/ SetPatch \/ Save
    \/ Return \/ Tick

Spec == Init /\ [][Next]_vars

----------------------------------------------------------------------------
(* scripts/Collect_Match_IDs.py: collect_match_ids over the tiers of the    *)
(* ladder.  The statements are taken at the indentation the file gives      *)
(* them: the for loop over players (lines 137-140) holds the early-stop     *)
(* test only, and lines 142-169 follow that loop inside the loop over       *)
(* tiers.                                                                   *)

\* Line 139: the entries of a tier passed before the count is looked at
MinPlayersPerTier == 30

\* Line 135: max_players
MaxPlayersPerTier == 50

\* entry.get('puuid') when the key is absent or empty
NoPuuid == 0

\* An entry of the ladder.  answer and match_ids: what the match API gives
\* for this player, "ok" with the list, "refused" (a status other than 200)
\* or "raises" (the request fails).
Entry(puuid, answer, match_ids) ==
    [puuid |-> puuid, answer |-> answer, match_ids |-> match_ids]

\* Lines 51-70: the entries of the tier, none when the ladder is refused
get_high_elo_players(ladder) ==
    IF ladder.status # 200 THEN <<>>
    ELSE Take(ladder.entries, MaxPlayersPerTier)

\* Lines 83-94
get_player_matches(e) == IF e.answer = "ok" THEN e.match_ids ELSE <<>>

\* Lines 96-105
check_match_cached(match_id) == match_id \in cache

\* Lines 154-158: new_match_ids after the loop over match_ids
RECURSIVE AppendUncached(_, _)
AppendUncached(new, ids) ==
    IF ids = <<>> THEN new
    ELSE AppendUncached(IF check_match_cached(Head(ids)) THEN new
                        ELSE Append(new, Head(ids)),
                        Tail(ids))

\* The k-th player of a ladder and the ladder's first n players
PlayerNo(k) == Entry(k, "ok", <<k, k + 1>>)

PlayersUpTo(n) == [k \in 1..n |-> PlayerNo(k)]

\* The answers of the league API for a tier
Ladders ==
    {[status |-> 404, entries |-> PlayersUpTo(2)],
     [status |-> 200, entries |-> <<>>],
     [status |-> 200, entries |-> PlayersUpTo(1)],
     [status |-> 200, entries |-> PlayersUpTo(1) \o <<Entry(NoPuuid, "ok", <<7>>)>>],
     [status |-> 200, entries |-> PlayersUpTo(1) \o <<Entry(2, "raises", <<>>)>>],
     [status |-> 200, entries |-> PlayersUpTo(1) \o <<Entry(2, "refused", <<>>)>>],
     [status |-> 200, entries |-> PlayersUpTo(MinPlayersPerTier + 1)],
     [status |-> 200, entries |-> PlayersUpTo(MaxPlayersPerTier + 1)]}

InitCollect ==
    /\ Idle
    /\ pc = "collect_call"

\* Lines 107-121 and the arguments of the call
CollectEnter ==
    /\ pc = "collect_call"
    /\ ladders' \in UNION {[1..n -> Ladders] : n \in 0..MaxTiers}
    /\ cache' \in {{}, {1, 2}}
    /\ target_count' \in {1, 3}
    /\ tier' = 0
    /\ players' = <<>>
    /\ entry' = Unbound
    /\ all_match_ids' = {}
    /\ new_match_ids' = <<>>
    /\ players_processed' = 0
    /\ h_fetched' = <<>>
    /\ pc' = "tiers"
    /\ UNCHANGED <<idx, aggregateVars>>

\* Lines 130-137: the next tier of the outer loop and its ladder
TierNext ==
    /\ pc = "tiers"
    /\ tier < Len(ladders)
    /\ tier' = tier + 1
    /\ players' = get_high_elo_players(ladders[tier + 1])
    /\ idx' = 0
    /\ pc' = "players"
    /\ UNCHANGED <<ladders, cache, target_count, entry, all_match_ids,
                   new_match_ids, players_processed, h_fetched, aggregateVars>>

\* Lines 137-140: one iteration of the loop over players that goes on; idx
\* is the number of entries the loop has bound.
PlayerNext ==
    /\ pc = "players"
    /\ idx < Len(players)
    /\ ~(idx >= MinPlayersPerTier /\ Len(new_match_ids) >= target_count)
    /\ entry' = players[idx + 1]
    /\ idx' = idx + 1
    /\ UNCHANGED <<pc, ladders, cache, target_count, tier, players,
                   all_match_ids, new_match_ids, players_processed, h_fetched,
                   aggregateVars>>

\* Lines 137-140: the iteration that breaks
PlayerBreak ==
    /\ pc = "players"
    /\ idx < Len(players)
    /\ idx >= MinPlayersPerTier /\ Len(new_match_ids) >= target_count
    /\ entry' = players[idx + 1]
    /\ pc' = "entry"
    /\ UNCHANGED <<idx, ladders, cache, target_count, tier, players,
                   all_match_ids, new_match_ids, players_processed, h_fetched,
                   aggregateVars>>

\* Line 137: the players are exhausted
PlayersDone ==
    /\ pc = "players"
    /\ idx = Len(players)
    /\ pc' = "entry"
    /\ UNCHANGED <<idx, collectVars, aggregateVars>>

\* Line 143 when no statement has bound entry: UnboundLocalError, outside
\* any try block
EntryUnbound ==
    /\ pc = "entry"
    /\ entry = Unbound
    /\ pc' = "collect_raised"
    /\ UNCHANGED <<idx, collectVars, aggregateVars>>

\* Lines 143-147: an entry without PUUID; continue takes the next tier
EntrySkip ==
    /\ pc = "entry"
    /\ entry # Unbound
    /\ entry.puuid = NoPuuid
    /\ pc' = "tiers"
    /\ UNCHANGED <<idx, collectVars, aggregateVars>>

\* Lines 143-165: the match list of entry is fetched and added
FetchMatches ==
    /\ pc = "entry"
    /\ entry # Unbound
    /\ entry.puuid # NoPuuid
    /\ entry.answer # "raises"
    /\ all_match_ids' = all_match_ids
                          \cup {get_player_matches(entry)[i] :
                                   i \in 1..Len(get_player_matches(entry))}
    /\ new_match_ids' = AppendUncached(new_match_ids, get_player_matches(entry))
    /\ players_processed' = players_processed + 1
    /\ h_fetched' = Append(h_fetched, <<tier, entry.puuid>>)
    /\ pc' = "tiers"
    /\ UNCHANGED <<idx, ladders, cache, target_count, tier, players, entry,
                   aggregateVars>>

\* Lines 149-151 and 167-169: the request fails and the except clause
\* continues
FetchRaises ==
    /\ pc = "entry"
    /\ entry # Unbound
    /\ entry.puuid # NoPuuid
    /\ entry.answer = "raises"
    /\ h_fetched' = Append(h_fetched, <<tier, entry.puuid>>)
    /\ pc' = "tiers"
    /\ UNCHANGED <<idx, ladders, cache, target_count, tier, players, entry,
                   all_match_ids, new_match_ids, players_processed,
                   aggregateVars>>

\* Lines 171-196: the tiers are exhausted; new_match_ids is returned
CollectReturn ==
    /\ pc = "tiers"
    /\ tier = Len(ladders)
    /\ pc' = "collected"
    /\ UNCHANGED <<idx, collectVars, aggregateVars>>

NextCollect ==
    \/ CollectEnter \/ TierNext \/ PlayerNext \/ PlayerBreak \/ PlayersDone
    \/ EntryUnbound \/ EntrySkip \/ FetchMatches \/ FetchRaises \/ CollectReturn

SpecCollect == InitCollect /\ [][NextCollect]_vars

----------------------------------------------------------------------------
(* Claims about the entity reducer *)

SumPickRates == SumSeq([i \in 1..Len(champion_stats) |-> champion_stats[i].pick_rate])

\* Each pick_rate is rounded to 0.01, so n of them sum to 100 within n * 0.005.
PickRatesSumTo100 ==
    2 * Abs(SumPickRates - 10000) <= Len(champion_stats)

\* C1 as stated: after folding a non-empty sequence of match records, the
\* pick rates of the output sum to 100 within the rounding epsilon.
C1_Original ==
    (pc = "champion_done" /\ idx > 0) => PickRatesSumTo100

\* C1, amended: whenever the output of aggregate_champion_stats holds at least
\* one entity, its pick rates sum to 100 within 0.005 per entity.
C1_PickRateSum ==
    (pc = "champion_done" /\ champion_stats # <<>>) => PickRatesSumTo100

\* Three entities at 33.33 each: the sum is 99.99, off 100 and within epsilon.
C1_Witness ==
    /\ pc = "champion_done"
    /\ Len(champion_stats) = 3
    /\ SumPickRates = 9999

\* C2: every entity of the output has wins <= games_played, games_played >= 1
\* and win_rate = round(wins / games_played * 100, 2), also when participants
\* raised part-way through extraction.
C2_WinsWithinGames ==
    pc = "champion_done" =>
        \A i \in 1..Len(champion_stats) :
            /\ champion_stats[i].wins <= champion_stats[i].games_played
            /\ champion_stats[i].games_played >= 1
            /\ champion_stats[i].win_rate =
                   Round(champion_stats[i].wins * 10000,
                         champion_stats[i].games_played)

\* An entity with a win and a loss, one of its participants having raised
\* after its game was counted.
C2_Witness ==
    /\ pc = "champion_done"
    /\ \E i \in 1..Len(champion_stats) :
         /\ champion_stats[i].games_played = 3
         /\ champion_stats[i].wins = 2
         /\ champion_stats[i].win_rate = 6667
         /\ Len(champion_data[i].kda_samples) < champion_data[i].games

\* C6: a participant that raises during extraction is skipped on its own: it
\* adds nothing to any total or sample list, and every other participant of
\* its match and every later match is accumulated.
C6_SkippedIndividually ==
    pc \in {"champion_loop", "champion_done"} => champion_data = h_expected

----------------------------------------------------------------------------
(* Claims about the matchup reducer *)

\* C3: the pair (A, B) is in the output of aggregate_matchups if and only if
\* the number of observed games in which A and B occupied the same canonical
\* role on opposite teams is at least 3, the case A = B included.
C3_ReportedIffThreeGames ==
    pc = "matchups_done" =>
        \A a, b \in MatchupNames :
            Reported(matchup_data, a, b) <=> h_observed[<<a, b>>] >= MinMatchupGames

\* C4: after any fold the accumulated rows (A, B) and (B, A) have equal games,
\* their wins add up to that games count, and (A, B) is in the output exactly
\* when (B, A) is.
C4_SymmetricRows ==
    /\ pc \in {"matchups_loop", "matchups_done"} =>
         \A a, b \in MatchupNames :
             /\ RowOf(matchup_rows, a, b).games = RowOf(matchup_rows, b, a).games
             /\ RowOf(matchup_rows, a, b).wins + RowOf(matchup_rows, b, a).wins
                  = RowOf(matchup_rows, a, b).games
    /\ pc = "matchups_done" =>
         \A a, b \in MatchupNames :
             Reported(matchup_data, a, b) <=> Reported(matchup_data, b, a)

\* Ashe met Zed three times and won once; both directions are reported.
C4_Witness ==
    /\ pc = "matchups_done"
    /\ RowOf(matchup_rows, "Ashe", "Zed") = [wins |-> 1, games |-> 3]
    /\ RowOf(matchup_rows, "Zed", "Ashe") = [wins |-> 2, games |-> 3]
    /\ Reported(matchup_data, "Ashe", "Zed")
    /\ Reported(matchup_data, "Zed", "Ashe")
    /\ RowOf(matchup_rows, "Zed", "Zed").games > 0

----------------------------------------------------------------------------
(* Claims about the objective reducer *)

----------------------------------------------------------------------------
(* Claims about the summary composer *)

\* The place of a champion in the entity-stats mapping
StatsIndex(c) ==
    KeyIndex([i \in 1..Len(champion_stats) |-> champion_stats[i].champion], c)

\* list is a ranking: at most TopN entries, rank i at position i, metric
\* values (metric[i] for entry i) not increasing, equal values in the order
\* of the mapping.
IsRanking(list, metric) ==
    /\ Len(list) <= TopN
    /\ \A i \in 1..Len(list) : list[i].rank = i
    /\ \A i, j \in 1..Len(list) :
         i < j => /\ metric[i] >= metric[j]
                  /\ metric[i] = metric[j] =>
                       StatsIndex(list[i].champion) < StatsIndex(list[j].champion)

AboveFloor(list) ==
    \A i \in 1..Len(list) :
        champion_stats[StatsIndex(list[i].champion)].games_played >= MinGamesForRanking

\* C9: each of the four top-10 lists of the summary has at most 10 entries,
\* is ordered by non-increasing metric with equal-metric entities in their
\* order of appearance in the entity-stats mapping, carries ranks 1..n by
\* position, and the win-rate, gold-efficiency and vision lists hold only
\* entities with games_played >= 5 while the pick-rate list has no floor.
C9_TopTenLists ==
    pc = "summary_done" =>
        LET o  == meta_summary.meta_overview
            wr == o.top_10_by_win_rate
            pr == o.top_10_by_pick_rate
            ge == o.top_10_gold_efficient
            vc == o.top_10_vision_control
        IN  /\ IsRanking(wr, [i \in 1..Len(wr) |-> wr[i].win_rate])
            /\ IsRanking(pr, [i \in 1..Len(pr) |-> pr[i].pick_rate])
            /\ IsRanking(ge, [i \in 1..Len(ge) |-> ge[i].gold_efficiency])
            /\ IsRanking(vc, [i \in 1..Len(vc) |-> vc[i].avg_vision_per_min])
            /\ AboveFloor(wr) /\ AboveFloor(ge) /\ AboveFloor(vc)
            /\ Len(pr) = (IF Len(champion_stats) < TopN THEN Len(champion_stats) ELSE TopN)

\* Eleven entities, nine of them tied: the pick-rate list is cut to ten and
\* ends with a 4-game entity that the win-rate list leaves out.
C9_Witness ==
    /\ pc = "summary_done"
    /\ Len(champion_stats) = MaxEntities
    /\ Len(meta_summary.meta_overview.top_10_by_pick_rate) = TopN
    /\ meta_summary.meta_overview.top_10_by_pick_rate[TopN].games = 4
    /\ Len(meta_summary.meta_overview.top_10_by_win_rate) = 9
    /\ meta_summary.meta_overview.top_10_by_win_rate[1].win_rate
         = meta_summary.meta_overview.top_10_by_win_rate[2].win_rate

----------------------------------------------------------------------------
(* Claims about the pipeline *)

\* The five reducers of the running call have returned.
ReducersReturned == pc \in {"summary_args", "summary_call", "summary_done", "save"}

FourReducersEmpty ==
    /\ champion_stats = <<>>
    /\ role_stats = <<>>
    /\ item_builds = <<>>
    /\ matchup_data = <<>>

\* C5 as stated: given an empty sequence of match records, each of the five
\* reducers returns an empty mapping.
C5_Original ==
    (ReducersReturned /\ matches = <<>>) =>
        (FourReducersEmpty /\ objective_stats = <<>>)

\* C5, amended: given an empty sequence of match records, the entity, role,
\* build and matchup reducers return an empty mapping, and the objective
\* reducer returns its four objective keys, each with games 0, wins 0 and
\* win_rate 0.
C5_EmptyInput ==
    (ReducersReturned /\ matches = <<>>) =>
        /\ FourReducersEmpty
        /\ objective_stats =
             [i \in 1..Len(ObjectiveKeys) |->
                 [objective |-> ObjectiveKeys[i], wins |-> 0, games |-> 0,
                  win_rate |-> 0]]

\* Two files were listed and neither loaded: the reducers ran on no record.
C5_Witness ==
    /\ pc = "summary_args"
    /\ Len(match_files) = 2
    /\ matches = <<>>
    /\ Len(objective_stats) = 4

\* The puts of the running call
OwnPuts == {i \in 1..Len(sink) : sink[i].invocation = invocation}

\* C8: create_meta_summary does not begin until the entity, role and
\* objective reducers have completed, no artifact is stored before the
\* summary is composed, and the summary consumes exactly what those three
\* reducers returned.
C8_SummaryAfterReducers ==
    /\ pc \in {"summary_call", "summary_done"} =>
         /\ champion_stats = aggregate_champion_stats(matches)
         /\ role_stats = aggregate_role_meta(matches)
         /\ objective_stats = aggregate_objective_correlations(matches)
    /\ pc = "summary_done" =>
         meta_summary = create_meta_summary(aggregate_champion_stats(matches),
                                            aggregate_role_meta(matches),
                                            aggregate_objective_correlations(matches),
                                            Len(matches),
                                            meta_summary.data_collection_date)
    /\ OwnPuts # {} =>
         /\ pc \in {"save", "returned"}
         /\ meta_summary =
              [create_meta_summary(aggregate_champion_stats(matches),
                                   aggregate_role_meta(matches),
                                   aggregate_objective_correlations(matches),
                                   Len(matches),
                                   meta_summary.data_collection_date)
                 EXCEPT !.patch = Patch]

\* The summary of two champions and one role is being stored.
C8_Witness ==
    /\ pc = "save"
    /\ Cardinality(OwnPuts) = 3
    /\ Len(meta_summary.meta_overview.top_10_by_pick_rate) = 2
    /\ Len(meta_summary.role_economy) = 1

\* C10 as stated: two invocations over the same match records store
\* identical documents for all six artifacts.
C10_Original ==
    \A i, j \in 1..Len(sink) :
        sink[i].key = sink[j].key => sink[i].data = sink[j].data

\* The stored document, the summary's data_collection_date left aside
Undated(put) ==
    IF put.key = OutputKeys[Len(OutputKeys)]
    THEN [put.data EXCEPT !.data_collection_date = 0]
    ELSE put.data

\* C10, amended: two invocations over the same match records store identical
\* documents for all six artifacts but for the data_collection_date of the
\* meta summary, which is the time of the run; no other state is carried
\* from one invocation to the next.
C10_Idempotent ==
    \A i, j \in 1..Len(sink) :
        sink[i].key = sink[j].key => Undated(sink[i]) = Undated(sink[j])

\* Both runs stored their six artifacts, a matchup among them, at different
\* times.
C10_Witness ==
    /\ Len(sink) = 2 * Len(OutputKeys)
    /\ sink[1].data # <<>>
    /\ sink[4].data # <<>>
    /\ sink[4].data = sink[10].data
    /\ sink[6].data.data_collection_date # sink[12].data.data_collection_date

\* The outputs list aggregate_match_data reports: the empty dict reports none.
ReportedOutputs == IF result = <<>> THEN <<>> ELSE result[3][2]

\* C11: whenever the sequence of match records available to the pipeline is
\* empty (no match file listed, or every listed file fails to load),
\* aggregate_match_data stores no artifact in the sink and reports an empty
\* outputs list.
C11_NothingStoredOnEmptyInput ==
    (pc = "returned" /\ matches = <<>>) =>
        (OwnPuts = {} /\ ReportedOutputs = <<>>)

----------------------------------------------------------------------------
(* Claims about the reliability tier *)

\* C12: the reliability_assessment of the summary create_meta_summary returns
\* is decided by total_matches alone: High from 300 matches, Medium from 150
\* to 299, Low from 50 to 149, Very Low below 50; and for empty entity stats
\* with total_matches = 0 the summary has champions_with_data = 0 and is
\* Very Low.
C12_ReliabilityTiers ==
    pc = "summary_done" =>
        /\ total_matches >= 300 => meta_summary.reliability_assessment = "High"
        /\ (150 <= total_matches /\ total_matches < 300) =>
               meta_summary.reliability_assessment = "Medium"
        /\ (50 <= total_matches /\ total_matches < 150) =>
               meta_summary.reliability_assessment = "Low"
        /\ total_matches < 50 => meta_summary.reliability_assessment = "Very Low"
        /\ (champion_stats = <<>> /\ total_matches = 0) =>
               /\ meta_summary.champions_with_data = 0
               /\ meta_summary.reliability_assessment = "Very Low"

\* A summary of two entities composed from exactly 150 matches is Medium.
C12_Witness ==
    /\ pc = "summary_done"
    /\ total_matches = 150
    /\ Len(champion_stats) = 2
    /\ meta_summary.reliability_assessment = "Medium"

----------------------------------------------------------------------------
(* Claims about an entity's positions *)

\* The labels of positions seen in at least a tenth of the games
FrequentAtLeast(positions, games) ==
    {i \in 1..Len(positions) : positions[i].count * 10 >= games}

\* The labels of positions seen in more than a tenth of the games
FrequentMoreThan(positions, games) ==
    {i \in 1..Len(positions) : positions[i].count * 10 > games}

\* The accumulator row of the i-th entity of the output (every entity of
\* these runs has a game, so the rows correspond)
RowCounted(i) == champion_data[i]

\* C13 as stated: for every entity in the output of aggregate_champion_stats,
\* position_flexibility is the number of roles whose occurrence count is at
\* least 10% of the entity's games_played, a role seen in exactly 10% of the
\* games being counted.
C13_Original ==
    pc = "champion_done" =>
        \A i \in 1..Len(champion_stats) :
            champion_stats[i].position_flexibility =
                Cardinality(FrequentAtLeast(RowCounted(i).positions,
                                            champion_stats[i].games_played))

\* C13, amended: for every entity in the output of aggregate_champion_stats,
\* position_flexibility is the number of labels of the entity's
\* role-frequency mapping whose occurrence count is more than 10% of the
\* entity's games_played; a label seen in exactly 10% of the games is not
\* counted.
C13_Flexibility ==
    pc = "champion_done" =>
        \A i \in 1..Len(champion_stats) :
            champion_stats[i].position_flexibility =
                Cardinality(FrequentMoreThan(RowCounted(i).positions,
                                             champion_stats[i].games_played))

\* Ten games, nine in one role and one in another: the second role is seen
\* in exactly a tenth of the games and the flexibility is 1.
C13_Witness ==
    /\ pc = "champion_done"
    /\ Len(champion_stats) = 1
    /\ champion_stats[1].games_played = 10
    /\ \E j \in 1..Len(champion_data[1].positions) :
          champion_data[1].positions[j].count = 1
    /\ \E j \in 1..Len(champion_data[1].positions) :
          champion_data[1].positions[j].count = 9
    /\ champion_stats[1].position_flexibility = 1

\* The role label of a participant is missing, empty or the sentinel.
NoRoleLabels == {"", "Invalid"}

\* C14: in aggregate_champion_stats a participant whose role label is
\* missing, empty or "Invalid" still increments its entity's games but adds
\* nothing to the entity's role-frequency mapping, so that primary_position
\* is never "Invalid" and no such label counts toward position_flexibility.
C14_SentinelRoleUntracked ==
    /\ \A i \in 1..Len(champion_data) :
          /\ champion_data[i].games = idx
          /\ \A j \in 1..Len(champion_data[i].positions) :
                champion_data[i].positions[j].key \notin NoRoleLabels
    /\ pc = "champion_done" =>
          \A i \in 1..Len(champion_stats) :
              champion_stats[i].primary_position # "Invalid"

----------------------------------------------------------------------------
(* Claims about the observations of the matchup reducer *)

\* C15 as stated: for every matchup observation aggregate_matchups records,
\* both directions get one game increment and a direction's row gets a win
\* increment if and only if that side's own participant win flag is true; a
\* side whose flag is false or absent never receives a win increment.
C15_Original ==
    pc \in {"matchups_loop", "matchups_done"} =>
        \A a, b \in MatchupNames :
            RowOf(matchup_rows, a, b) =
                [wins |-> h_matchups[<<a, b>>].own_wins,
                 games |-> h_matchups[<<a, b>>].games]

\* C15, amended: for every matchup observation aggregate_matchups records,
\* both directions get one game increment; the row of the team-100 side gets
\* a win increment if and only if the team-100 participant's win flag is
\* true, and the row of the team-200 side gets one if and only if that same
\* flag is false or absent.  The team-200 participant's own flag is not
\* read, so exactly one direction is credited with each observation.
C15_WinAttribution ==
    pc \in {"matchups_loop", "matchups_done"} =>
        \A a, b \in MatchupNames :
            RowOf(matchup_rows, a, b) =
                [wins |-> h_matchups[<<a, b>>].first_wins,
                 games |-> h_matchups[<<a, b>>].games]

\* Zed, on team 200, has been credited with a win its own flag denies: the
\* two win flags of an observation were both false.
C15_Witness ==
    /\ pc = "matchups_loop"
    /\ h_matchups[<<"Zed", "Ashe">>].games = 2
    /\ h_matchups[<<"Zed", "Ashe">>].own_wins = 0
    /\ RowOf(matchup_rows, "Zed", "Ashe").wins = 1
    /\ RowOf(matchup_rows, "Ashe", "Zed").wins = 1

\* C16: a participant with an empty role, an "Invalid" role, a team
\* identifier that is not one of the two valid teams, or no entity is
\* dropped on its own: it occupies no slot and appears in no matchup row,
\* while the remaining participants of its match still produce their
\* observations.
C16_DroppedAlone ==
    pc \in {"matchups_loop", "matchups_done"} =>
        \A a, b \in MatchupNames :
            RowOf(matchup_rows, a, b).games = h_matchups[<<a, b>>].alone

----------------------------------------------------------------------------
(* Claims about collect_match_ids *)

\* The number of match ids of the entry's list that the cache does not hold
Uncached(e) ==
    Cardinality({i \in 1..Len(get_player_matches(e)) :
                    get_player_matches(e)[i] \notin cache})

\* The requests a collection makes that takes every entry of every tier in
\* order, leaves out the entries without PUUID, and leaves a tier only when
\* its entries are exhausted or when MinPlayersPerTier entries have been
\* passed and found new match ids have reached target_count: from entry k of
\* tier t on, found new ids so far, acc the requests so far.
RECURSIVE FetchesInOrder(_, _, _, _)
FetchesInOrder(t, k, found, acc) ==
    IF t > Len(ladders) THEN acc
    ELSE LET ps == get_high_elo_players(ladders[t])
         IN  IF \/ k > Len(ps)
                \/ (k - 1 >= MinPlayersPerTier /\ found >= target_count)
             THEN FetchesInOrder(t + 1, 1, found, acc)
             ELSE IF ps[k].puuid = NoPuuid
                  THEN FetchesInOrder(t, k + 1, found, acc)
             ELSE FetchesInOrder(t, k + 1, found + Uncached(ps[k]),
                                 Append(acc, <<t, ps[k].puuid>>))

\* C17: in collect_match_ids the match list of every returned player entry
\* of each tier is fetched in order, a tier is left early only once at least
\* 30 of its entries have been processed and the new match ids have reached
\* target_count, and a tier that returns no players is skipped without
\* error.
C17_EveryEntryFetched ==
    /\ pc # "collect_raised"
    /\ pc = "collected" => h_fetched = FetchesInOrder(1, 1, 0, <<>>)

====
